---- MODULE Spec2Model ----
(***************************************************************************)
(* ransomwatch: the SQLite index (database.py), advisory discovery and     *)
(* enrichment (scraper.py) and the update run (cli.py) as a state machine. *)
(*                                                                         *)
(* Python values are modelled as follows.  None is the string "None".      *)
(* A dataclass is a record with the dataclass's field names.  A table is   *)
(* the sequence of its rows in rowid order (iocs.id is AUTOINCREMENT, so   *)
(* rowid order is insertion order; the id itself is never read by any      *)
(* query and is left implicit in the position).  A datetime and its ISO    *)
(* text are different strings related by IsoFormat / FromIsoFormat.        *)
(***************************************************************************)
EXTENDS Integers, Sequences, FiniteSets, TLC

VARIABLES
    advisories,   \* table advisories: sequence of rows
    iocs,         \* table iocs: sequence of rows
    call,         \* the last index operation called, with its arguments
    ret,          \* what that call returned or raised
    upserted,     \* history: advisory_id -> the Advisory last passed to upsert_advisory
    disc,         \* the discover_advisories call: position, inputs, locals and result
    run,          \* the update command: position, options and locals
    cache,        \* STIX_DIR and PDF_DIR: <<advisory_id, source>> -> the file downloaded
    last_parse,   \* history: <<advisory_id, source>> -> the records update last parsed for it
    listing_log,  \* history: the listing fetches of the current discover_advisories_live call
    rerun,        \* the world update is re-run in, the IOC table when the run began,
                  \* whether a run was stopped
    wire          \* what the last fetch (listing page, detail page, artifact) did on
                  \* the network, in order: "sleep" for a delay, "get" for a request

None == "None"

\* ------------------------------------------------------------------ bounds
\* rows the iocs table may hold before further inserts are not explored
MaxIocs == 2
\* longest records list handed to insert_iocs by a direct caller
MaxBatch == 2
\* most words of a text handed to extract_ips_from_text
MaxWords == 3
\* most objects of a STIX document, most clauses of one pattern
MaxObjects == 2
MaxClauses == 2
\* longest text handed to refang_ip, in characters
MaxText == 5
\* entries of the seed catalog kept (its first CatalogLen entries)
CatalogLen == 2
\* anchors on one listing page
MaxAnchors == 2

\* ------------------------------------------------------------- config.py
CISA_BASE_URL == "https://www.cisa.gov"
\* imported by scraper.py; the value is the one tests/test_scraper.py runs with
MAX_DISCOVERY_PAGES == 3

\* --------------------------------------------------------------- models.py
Advisory(id, title, url, published, stix_url, pdf_url) ==
    [advisory_id |-> id, title |-> title, url |-> url, published |-> published,
     stix_url |-> stix_url, pdf_url |-> pdf_url]

IOCRecord(ioc_type, value, advisory_id, source) ==
    [ioc_type |-> ioc_type, value |-> value, advisory_id |-> advisory_id,
     source |-> source]

MatchDetail(advisory_id, title, url, source, published) ==
    [advisory_id |-> advisory_id, title |-> title, url |-> url,
     source |-> source, published |-> published]

SearchResult(query, normalized_ip, found, matches) ==
    [query |-> query, normalized_ip |-> normalized_ip, found |-> found,
     matches |-> matches]

\* ------------------------------------------------- datetime <-> ISO text
\* the datetimes of the model (tests/test_database.py sample_advisory)
DT_2023_03_02 == "datetime(2023, 3, 2, tzinfo=utc)"
DT_2024_04_18 == "datetime(2024, 4, 18, tzinfo=utc)"

\* datetime.isoformat()
IsoFormat(dt) ==
    CASE dt = DT_2023_03_02 -> "2023-03-02T00:00:00+00:00"
      [] dt = DT_2024_04_18 -> "2024-04-18T00:00:00+00:00"

\* datetime.fromisoformat(); "ValueError" when the text is no ISO date
FromIsoFormat(text) ==
    CASE text = "2023-03-02T00:00:00+00:00" -> DT_2023_03_02
      [] text = "2024-04-18T00:00:00+00:00" -> DT_2024_04_18
      [] OTHER -> "ValueError"

\* what a request gives when it fails (requests.RequestException), and the
\* content of a file that is not there
RequestFails == [kind |-> "RequestException"]
NoFile == [kind |-> "none"]

\* the elements of a list
Range(seq) == { seq[k] : k \in DOMAIN seq }

\* no Advisory object
NoAdvisory == Advisory(None, None, None, None, None, None)

\* what a call gave its caller: a return value, or an exception
Returned(value) == [raised |-> FALSE, value |-> value]
Raised(exc) == [raised |-> TRUE, value |-> exc]

\* ------------------------------------------------------------- database.py
\* Python truthiness of an optional string argument
Truthy(s) == s # None /\ s # ""

\* the parameter tuple of upsert_advisory's INSERT
AdvisoryRow(adv) ==
    [advisory_id |-> adv.advisory_id,
     title       |-> adv.title,
     url         |-> adv.url,
     published   |-> IF adv.published # None THEN IsoFormat(adv.published) ELSE None,
     stix_url    |-> adv.stix_url,
     pdf_url     |-> adv.pdf_url]

\* the advisory_id values of a table's rows
AdvisoryIds(rows) == {rows[i].advisory_id : i \in DOMAIN rows}

\* INSERT ... ON CONFLICT(advisory_id) DO UPDATE SET <every other column>
UpsertNoConflictClause(rows, row) == Append(rows, row)

UpsertReplacesTheTable(rows, row) == <<row>>

UpsertKeepsStoredUrls(rows, row) ==
    IF row.advisory_id \in AdvisoryIds(rows)
    THEN [i \in DOMAIN rows |->
            IF rows[i].advisory_id = row.advisory_id
            THEN [row EXCEPT
                    !.stix_url = IF @ = None THEN rows[i].stix_url ELSE @,
                    !.pdf_url = IF @ = None THEN rows[i].pdf_url ELSE @]
            ELSE rows[i]]
    ELSE Append(rows, row)

UpsertRows(rows, row) ==
    IF row.advisory_id \in AdvisoryIds(rows)
    THEN [i \in DOMAIN rows |->
            IF rows[i].advisory_id = row.advisory_id THEN row ELSE rows[i]]
    ELSE Append(rows, row)

\* FOREIGN KEY (advisory_id) REFERENCES advisories(advisory_id), with
\* PRAGMA foreign_keys=ON set on every connection
ForeignKeysOff(advs, rec) == TRUE

ForeignKeyOk(advs, rec) == rec.advisory_id \in AdvisoryIds(advs)

\* conn.executemany(INSERT INTO iocs ...): the rows go in one by one inside the
\* open transaction; the first row violating the foreign key raises
RECURSIVE ExecuteManyInsert(_, _, _)
ExecuteManyInsert(advs, rows, records) ==
    IF records = <<>> THEN [rows |-> rows, error |-> FALSE]
    ELSE IF ~ForeignKeyOk(advs, Head(records)) THEN [rows |-> rows, error |-> TRUE]
    ELSE ExecuteManyInsert(advs, Append(rows, Head(records)), Tail(records))

\* what the connection leaves in the table when insert_iocs ends:
\* commit() after executemany, or close() without commit (rollback) when it raised
CommitInFinally(before, tx) == tx.rows

EndTransaction(before, tx) == IF tx.error THEN before ELSE tx.rows

\* insert_iocs(records): [iocs: the table afterwards, raised, value: the return value]
InsertReturnsRowCount(advs, rows, records) ==
    IF records = <<>> THEN [iocs |-> rows, raised |-> FALSE, value |-> 0]
    ELSE LET tx == ExecuteManyInsert(advs, rows, records) IN
         [iocs   |-> EndTransaction(rows, tx),
          raised |-> tx.error,
          value  |-> IF tx.error THEN "sqlite3.IntegrityError" ELSE Len(tx.rows)]

InsertIocs(advs, rows, records) ==
    IF records = <<>> THEN [iocs |-> rows, raised |-> FALSE, value |-> 0]
    ELSE LET tx == ExecuteManyInsert(advs, rows, records) IN
         [iocs   |-> EndTransaction(rows, tx),
          raised |-> tx.error,
          value  |-> IF tx.error THEN "sqlite3.IntegrityError" ELSE Len(records)]

\* clear_iocs_for_advisory(advisory_id, source=None)
ClearIgnoresSource(rows, advisory_id, source) ==
    SelectSeq(rows, LAMBDA r : r.advisory_id # advisory_id)

ClearWholeSource(rows, advisory_id, source) ==
    IF Truthy(source) THEN SelectSeq(rows, LAMBDA r : r.source # source)
    ELSE SelectSeq(rows, LAMBDA r : r.advisory_id # advisory_id)

ClearOnlyWithoutSource(rows, advisory_id, source) ==
    IF Truthy(source) THEN rows
    ELSE SelectSeq(rows, LAMBDA r : r.advisory_id # advisory_id)

ClearIocs(rows, advisory_id, source) ==
    IF Truthy(source)
    THEN SelectSeq(rows, LAMBDA r : ~(r.advisory_id = advisory_id /\ r.source = source))
    ELSE SelectSeq(rows, LAMBDA r : r.advisory_id # advisory_id)

\* the WHERE clause of search_ip's SELECT
SearchWhere(ioc, ip) == ioc.value = ip /\ ioc.ioc_type = "ipv4-addr"

\* one result row of search_ip's SELECT: (advisory_id, title, url, source, published)
JoinedRow(ioc, adv) ==
    <<ioc.advisory_id, adv.title, adv.url, ioc.source, adv.published>>

\* FROM iocs i JOIN advisories a ON i.advisory_id = a.advisory_id WHERE ...
RECURSIVE SearchRows(_, _, _)
SearchRows(advs, rows, ip) ==
    IF rows = <<>> THEN <<>>
    ELSE LET i == Head(rows)
             joined == SelectSeq(advs, LAMBDA a : a.advisory_id = i.advisory_id)
             hits == IF SearchWhere(i, ip)
                     THEN [k \in DOMAIN joined |-> JoinedRow(i, joined[k])]
                     ELSE <<>>
         IN hits \o SearchRows(advs, Tail(rows), ip)

\* the loop of search_ip turning a result row into a MatchDetail
MatchOfRow(row) ==
    LET parsed == IF row[5] # None THEN FromIsoFormat(row[5]) ELSE None
        pub == IF parsed = "ValueError" THEN None ELSE parsed
    IN MatchDetail(row[1], row[2], row[3], row[4], pub)

\* search_ip(ip)
SearchIp(advs, rows, ip) ==
    LET found == SearchRows(advs, rows, ip)
        matches == [k \in DOMAIN found |-> MatchOfRow(found[k])]
    IN SearchResult(ip, ip, Len(matches) > 0, matches)

\* SELECT ioc_type, COUNT(*) FROM iocs GROUP BY ioc_type, as a dict
TypeCountsDistinctValues(rows) ==
    [t \in { rows[k].ioc_type : k \in DOMAIN rows } |->
        Cardinality({ rows[k].value : k \in { j \in DOMAIN rows : rows[j].ioc_type = t } })]

TypeCounts(rows) ==
    [t \in { rows[k].ioc_type : k \in DOMAIN rows } |->
        Len(SelectSeq(rows, LAMBDA r : r.ioc_type = t))]

\* SELECT source, COUNT(*) FROM iocs GROUP BY source, as a dict
SourceCounts(rows) ==
    [src \in { rows[k].source : k \in DOMAIN rows } |->
        Len(SelectSeq(rows, LAMBDA r : r.source = src))]

\* get_stats()
GetStats(advs, rows) ==
    [advisories |-> Len(advs), total_iocs |-> Len(rows),
     by_type |-> TypeCounts(rows), by_source |-> SourceCounts(rows)]

\* the characters of a title, one by one
CharsOf(title) ==
    CASE title = "#StopRansomware: Royal Ransomware" ->
            <<"#", "S", "t", "o", "p", "R", "a", "n", "s", "o", "m", "w", "a", "r", "e",
              ":", " ", "R", "o", "y", "a", "l", " ", "R", "a", "n", "s", "o", "m", "w",
              "a", "r", "e">>
      [] title = "#StopRansomware: Royal Ransomware (Updated)" ->
            <<"#", "S", "t", "o", "p", "R", "a", "n", "s", "o", "m", "w", "a", "r", "e",
              ":", " ", "R", "o", "y", "a", "l", " ", "R", "a", "n", "s", "o", "m", "w",
              "a", "r", "e", " ", "(", "U", "p", "d", "a", "t", "e", "d", ")">>
      [] title = "#StopRansomware: Play" ->
            <<"#", "S", "t", "o", "p", "R", "a", "n", "s", "o", "m", "w", "a", "r", "e",
              ":", " ", "P", "l", "a", "y">>
      [] title = "#StopRansomware: Akira" ->
            <<"#", "S", "t", "o", "p", "R", "a", "n", "s", "o", "m", "w", "a", "r", "e",
              ":", " ", "A", "k", "i", "r", "a">>
      [] title = "#StopRansomware:Akira" ->
            <<"#", "S", "t", "o", "p", "R", "a", "n", "s", "o", "m", "w", "a", "r", "e",
              ":", "A", "k", "i", "r", "a">>
      [] title = "Conti" ->
            <<"C", "o", "n", "t", "i">>
      [] title = "#StopRansomware: Interlock" ->
            <<"#", "S", "t", "o", "p", "R", "a", "n", "s", "o", "m", "w", "a", "r", "e",
              ":", " ", "I", "n", "t", "e", "r", "l", "o", "c", "k">>
      [] title = "#StopRansomware: Medusa" ->
            <<"#", "S", "t", "o", "p", "R", "a", "n", "s", "o", "m", "w", "a", "r", "e",
              ":", " ", "M", "e", "d", "u", "s", "a">>
      [] title = "#StopRansomware: Ghost/Cring" ->
            <<"#", "S", "t", "o", "p", "R", "a", "n", "s", "o", "m", "w", "a", "r", "e",
              ":", " ", "G", "h", "o", "s", "t", "/", "C", "r", "i", "n", "g">>

\* the characters of the titles in code-point order: the order in which
\* SQLite's BINARY collation and str comparison rank them
CodePointOrder ==
    <<" ", "#", "(", ")", "/", ":", "A", "C", "G", "I", "M", "P", "R", "S", "U", "a",
      "c", "d", "e", "g", "h", "i", "k", "l", "m", "n", "o", "p", "r", "s", "t", "u",
      "w", "y">>

CodePoint(c) == CHOOSE i \in DOMAIN CodePointOrder : CodePointOrder[i] = c

\* a <= b for two texts, character by character
RECURSIVE TextLeq(_, _)
TextLeq(a, b) ==
    IF a = <<>> THEN TRUE
    ELSE IF b = <<>> THEN FALSE
    ELSE IF Head(a) # Head(b) THEN CodePoint(Head(a)) < CodePoint(Head(b))
    ELSE TextLeq(Tail(a), Tail(b))

\* SELECT title, advisory_id FROM advisories ORDER BY title: every order of
\* the rows in which the titles do not descend (rows of one title come in
\* either order)
OrderByTitle(rows) ==
    { [k \in DOMAIN rows |-> rows[p[k]]] :
        p \in { q \in [DOMAIN rows -> DOMAIN rows] :
                  /\ \A i, j \in DOMAIN rows : i # j => q[i] # q[j]
                  /\ \A i, j \in DOMAIN rows :
                        i < j => TextLeq(CharsOf(rows[q[i]].title),
                                         CharsOf(rows[q[j]].title)) } }

\* the prefixes list_groups strips, in the order it tries them
GroupPrefixes ==
    << SubSeq(CharsOf("#StopRansomware: Play"), 1, 17), SubSeq(CharsOf("#StopRansomware: Play"), 1, 16) >>

\* name.startswith(prefix)
StartsWith(name, prefix) ==
    Len(name) >= Len(prefix) /\ SubSeq(name, 1, Len(prefix)) = prefix

\* text.strip()
RECURSIVE Strip(_)
Strip(text) ==
    IF text = <<>> THEN <<>>
    ELSE IF Head(text) = " " THEN Strip(Tail(text))
    ELSE IF text[Len(text)] = " " THEN Strip(SubSeq(text, 1, Len(text) - 1))
    ELSE text

\* the name list_groups gives a title: the first prefix the title starts
\* with is cut and the rest stripped
GroupName(title) ==
    LET name == CharsOf(title)
        hits == { k \in DOMAIN GroupPrefixes : StartsWith(name, GroupPrefixes[k]) }
    IN IF hits = {} THEN name
       ELSE LET k == CHOOSE h \in hits : \A m \in hits : h <= m
            IN Strip(SubSeq(name, Len(GroupPrefixes[k]) + 1, Len(name)))

\* list_groups() over the rows as the SELECT returned them
ListGroups(rows) == [k \in DOMAIN rows |-> <<GroupName(rows[k].title), rows[k].advisory_id>>]

\* -------------------------------------------------------------- scraper.py
\* _ADVISORY_CATALOG: (advisory_id, title), in source order
FullCatalog ==
    << <<"aa25-203a", "#StopRansomware: Interlock">>,
       <<"aa25-071a", "#StopRansomware: Medusa">>,
       <<"aa25-050a", "#StopRansomware: Ghost/Cring">>,
       <<"aa24-242a", "#StopRansomware: RansomHub Ransomware">>,
       <<"aa24-241a", "#StopRansomware: Br0k3r (NoEscape, Ransomhouse, BlackCat, Pay2Key)">>,
       <<"aa24-131a", "#StopRansomware: Black Basta">>,
       <<"aa24-109a", "#StopRansomware: Akira Ransomware">>,
       <<"aa24-060a", "#StopRansomware: Phobos Ransomware">>,
       <<"aa23-353a", "#StopRansomware: ALPHV Blackcat">>,
       <<"aa23-352a", "#StopRansomware: Play Ransomware">>,
       <<"aa23-325a", "#StopRansomware: LockBit 3.0 Ransomware">>,
       <<"aa23-320a", "#StopRansomware: Scattered Spider">>,
       <<"aa23-319a", "#StopRansomware: Rhysida Ransomware">>,
       <<"aa23-284a", "#StopRansomware: AvosLocker Ransomware">>,
       <<"aa23-263a", "#StopRansomware: Snatch Ransomware">>,
       <<"aa23-165a", "#StopRansomware: LockBit Ransomware">>,
       <<"aa23-158a", "#StopRansomware: CL0P Ransomware">>,
       <<"aa23-136a", "#StopRansomware: BianLian Ransomware">>,
       <<"aa23-075a", "#StopRansomware: LockBit 3.0">>,
       <<"aa23-061a", "#StopRansomware: Blacksuit (Royal) Ransomware">>,
       <<"aa23-040a", "#StopRansomware: Ransomware Attacks on Critical Infrastructure Fund DPRK">>,
       <<"aa22-335a", "#StopRansomware: Cuba Ransomware">>,
       <<"aa22-321a", "#StopRansomware: Hive Ransomware">>,
       <<"aa22-294a", "#StopRansomware: Daixin Team">>,
       <<"aa22-249a", "#StopRansomware: Vice Society">>,
       <<"aa22-223a", "#StopRansomware: Zeppelin Ransomware">>,
       <<"aa22-181a", "#StopRansomware: MedusaLocker">>,
       <<"aa22-152a", "#StopRansomware: Karakurt Data Extortion Group">>,
       <<"aa21-291a", "#StopRansomware: BlackMatter Ransomware">>,
       <<"aa21-265a", "#StopRansomware: Conti Ransomware">>,
       <<"aa21-131a", "#StopRansomware: DarkSide Ransomware">> >>

\* the catalog the model runs with
ADVISORY_CATALOG ==
    SubSeq(FullCatalog, 1, IF CatalogLen < Len(FullCatalog) THEN CatalogLen
                           ELSE Len(FullCatalog))

\* f"{CISA_BASE_URL}/news-events/cybersecurity-advisories/{adv_id}"
DetailUrl(adv_id) == CISA_BASE_URL \o "/news-events/cybersecurity-advisories/" \o adv_id

\* _catalog_advisories()
CatalogAdvisoriesUrlWithoutId ==
    [k \in DOMAIN ADVISORY_CATALOG |->
        Advisory(ADVISORY_CATALOG[k][1], ADVISORY_CATALOG[k][2],
                 CISA_BASE_URL \o "/news-events/cybersecurity-advisories/",
                 None, None, None)]

CatalogAdvisories ==
    [k \in DOMAIN ADVISORY_CATALOG |->
        Advisory(ADVISORY_CATALOG[k][1], ADVISORY_CATALOG[k][2],
                 DetailUrl(ADVISORY_CATALOG[k][1]), None, None, None)]

\* The anchors a listing page may hold: <a href=...>text</a>.
ListingAnchors ==
    { [href |-> "/news-events/cybersecurity-advisories/aa25-203a",
       text |-> "#StopRansomware: Interlock (Update 1)"],
      [href |-> "/news-events/cybersecurity-advisories/aa25-999a",
       text |-> " #StopRansomware: BrandNew "],
      [href |-> "https://www.cisa.gov/news-events/cybersecurity-advisories/aa25-999a",
       text |-> "#STOPRANSOMWARE: BrandNew (revised)"],
      [href |-> "/news-events/cybersecurity-advisories/aa25-998a",
       text |-> "#StopRansomware: AnotherRansom"],
      [href |-> "/news-events/cybersecurity-advisories/aa25-071a",
       text |-> "#StopRansomware: Medusa Ransomware"],
      [href |-> "/news-events/cybersecurity-advisories/aa25-099a",
       text |-> "Alert: Something Else"],
      [href |-> "/about", text |-> "About CISA"] }

\* "/news-events/cybersecurity-advisories/aa" in href
HasAdvisoryPath(href) ==
    href \in { "/news-events/cybersecurity-advisories/aa25-203a",
               "/news-events/cybersecurity-advisories/aa25-999a",
               "https://www.cisa.gov/news-events/cybersecurity-advisories/aa25-999a",
               "/news-events/cybersecurity-advisories/aa25-998a",
               "/news-events/cybersecurity-advisories/aa25-071a",
               "/news-events/cybersecurity-advisories/aa25-099a" }

\* _ADVISORY_ID_RE.search(href): the first aa\d{2}-\d{3}a in href, or None
AdvisoryIdIn(href) ==
    CASE href = "/news-events/cybersecurity-advisories/aa25-203a" -> "aa25-203a"
      [] href = "/news-events/cybersecurity-advisories/aa25-999a" -> "aa25-999a"
      [] href = "https://www.cisa.gov/news-events/cybersecurity-advisories/aa25-999a"
            -> "aa25-999a"
      [] href = "/news-events/cybersecurity-advisories/aa25-998a" -> "aa25-998a"
      [] href = "/news-events/cybersecurity-advisories/aa25-071a" -> "aa25-071a"
      [] href = "/news-events/cybersecurity-advisories/aa25-099a" -> "aa25-099a"
      [] OTHER -> None

\* link.get_text(strip=True)
GetTextStrip(text) ==
    IF text = " #StopRansomware: BrandNew " THEN "#StopRansomware: BrandNew" ELSE text

\* "stopransomware" in title.lower()
HasMarker(title) ==
    title \in { "#StopRansomware: Interlock (Update 1)", "#StopRansomware: BrandNew",
                "#STOPRANSOMWARE: BrandNew (revised)", "#StopRansomware: AnotherRansom",
                "#StopRansomware: Medusa Ransomware" }

\* the advisory_id values of a list of Advisory objects
IdsOf(advs) == { advs[k].advisory_id : k \in DOMAIN advs }

\* adv_id not in known_ids and adv_id not in discovered
IsNewIgnoringKnown(adv_id, known_ids, discovered) == adv_id \notin IdsOf(discovered)

IsNewIgnoringDiscovered(adv_id, known_ids, discovered) == adv_id \notin known_ids

IsNew(adv_id, known_ids, discovered) ==
    adv_id \notin known_ids /\ adv_id \notin IdsOf(discovered)

\* the anchor loop of discover_advisories_live over one page:
\* [discovered, links_found, new_on_page]; discovered is the dict's values in
\* insertion order
RECURSIVE ScanAnchors(_, _, _)
ScanAnchors(anchors, known_ids, acc) ==
    IF anchors = <<>> THEN acc
    ELSE LET link == Head(anchors)
             href == link.href
             adv_id == AdvisoryIdIn(href)
             title == GetTextStrip(link.text)
             relevant == /\ HasAdvisoryPath(href)
                         /\ adv_id # None
                         /\ HasMarker(title)
             new == relevant /\ IsNew(adv_id, known_ids, acc.discovered)
             next ==
                [discovered |->
                    IF new THEN Append(acc.discovered,
                                       Advisory(adv_id, title, DetailUrl(adv_id),
                                                None, None, None))
                    ELSE acc.discovered,
                 links_found |-> acc.links_found + (IF relevant THEN 1 ELSE 0),
                 new_on_page |-> acc.new_on_page + (IF new THEN 1 ELSE 0)]
         IN ScanAnchors(Tail(anchors), known_ids, next)

\* the break after a page: no relevant link, or relevant links all known
StopOnlyWhenNoLinks(links_found, new_on_page) == links_found = 0

StopAfterPage(links_found, new_on_page) ==
    links_found = 0 \/ (new_on_page = 0 /\ links_found > 0)

\* dict[key] = value on a dict kept as its values in insertion order
DictPut(values, adv) ==
    IF adv.advisory_id \in IdsOf(values)
    THEN [k \in DOMAIN values |->
            IF values[k].advisory_id = adv.advisory_id THEN adv ELSE values[k]]
    ELSE Append(values, adv)

\* {a.advisory_id: a for a in live}
RECURSIVE DictOf(_, _)
DictOf(advs, acc) ==
    IF advs = <<>> THEN acc ELSE DictOf(Tail(advs), DictPut(acc, Head(advs)))

\* the merge of discover_advisories: live first, then the catalog entries
\* whose id is not yet a key; list(merged.values())
RECURSIVE FillFromCatalog(_, _)
FillFromCatalog(merged, catalog) ==
    IF catalog = <<>> THEN merged
    ELSE FillFromCatalog(
            IF Head(catalog).advisory_id \notin IdsOf(merged)
            THEN DictPut(merged, Head(catalog)) ELSE merged,
            Tail(catalog))

MergeCatalogOverwrites(live, catalog) == DictOf(catalog, DictOf(live, <<>>))

MergeLiveOnlyWhenFound(live, catalog) ==
    IF live # <<>> THEN DictOf(live, <<>>) ELSE catalog

MergeLiveAndCatalog(live, catalog) == FillFromCatalog(DictOf(live, <<>>), catalog)

\* what a fetch of a listing page gives: requests.RequestException, or the
\* page's anchors in document order
ListingPages == UNION { [1..n -> ListingAnchors] : n \in 0..MaxAnchors }

\* the listing pages served while update runs: a page repeating a catalogued
\* advisory under its current title, a page without advisories
UpdateListingPages ==
    { << [href |-> "/news-events/cybersecurity-advisories/aa25-203a",
          text |-> "#StopRansomware: Interlock (Update 1)"] >>,
      << [href |-> "/about", text |-> "About CISA"] >> }

\* href if href.startswith("http") else urljoin(CISA_BASE_URL, href)
AbsoluteUrl(href) ==
    IF href = "https://www.cisa.gov/sites/default/files/AA-indicators-v2.json"
    THEN href ELSE CISA_BASE_URL \o href

\* href.endswith(".json") / href.endswith(".pdf")
EndsWithJson(url) ==
    url \in { "https://www.cisa.gov/sites/default/files/AA-StopRansomware-STIX.json",
              "https://www.cisa.gov/sites/default/files/AA-indicators-v2.json",
              "https://www.cisa.gov/sites/default/files/site-config.json" }

EndsWithPdf(url) ==
    url \in { "https://www.cisa.gov/sites/default/files/AA-advisory.pdf",
              "https://www.cisa.gov/sites/default/files/AA-advisory-508c.pdf" }

\* "stix" in href.lower()
StixInUrl(url) ==
    url = "https://www.cisa.gov/sites/default/files/AA-StopRansomware-STIX.json"

\* "stix" in link_text or "json" in link_text, link_text the lowered text
StixOrJsonInText(text) == text \in { "AA STIX JSON", "Indicators (JSON, 12 KB)" }

\* the anchor loop of enrich_advisory: [stix_urls, pdf_url]
RECURSIVE EnrichScan(_, _)
EnrichScan(anchors, acc) ==
    IF anchors = <<>> THEN acc
    ELSE LET link == Head(anchors)
             href == AbsoluteUrl(link.href)
             stix == IF EndsWithJson(href) /\ StixInUrl(href) THEN TRUE
                     ELSE IF EndsWithJson(href) THEN StixOrJsonInText(link.text)
                     ELSE FALSE
         IN EnrichScan(Tail(anchors),
                [stix_urls |-> IF stix THEN Append(acc.stix_urls, href)
                               ELSE acc.stix_urls,
                 pdf_url   |-> IF EndsWithPdf(href) THEN href ELSE acc.pdf_url])

\* enrich_advisory(advisory) when the detail page arrived with these anchors
EnrichAdvisory(advisory, anchors) ==
    LET scan == EnrichScan(anchors, [stix_urls |-> <<>>, pdf_url |-> advisory.pdf_url])
    IN [advisory EXCEPT
            !.pdf_url = scan.pdf_url,
            !.stix_url = IF scan.stix_urls # <<>>
                         THEN scan.stix_urls[Len(scan.stix_urls)] ELSE @]

\* enrich_advisory(advisory): `page` is what the fetch of advisory.url gave,
\* <<RequestFails>> or the page's anchors
EnrichKeepsEarlierPdf(advisory, page) ==
    IF page = <<RequestFails>> THEN advisory
    ELSE [EnrichAdvisory(advisory, page) EXCEPT
             !.pdf_url = IF Truthy(advisory.pdf_url) THEN advisory.pdf_url ELSE @]

EnrichReturnsNoneOnFailure(advisory, page) ==
    IF page = <<RequestFails>> THEN NoAdvisory
    ELSE EnrichAdvisory(advisory, page)

Enriched(advisory, page) ==
    IF page = <<RequestFails>> THEN advisory ELSE EnrichAdvisory(advisory, page)

\* The anchors a detail page may hold: a STIX link told by its URL, a JSON
\* link told by its text, a JSON link told by neither, two PDF links, a link
\* to neither kind.
EnrichAnchors ==
    { [href |-> "/sites/default/files/AA-StopRansomware-STIX.json",
       text |-> "AA STIX JSON"],
      [href |-> "https://www.cisa.gov/sites/default/files/AA-indicators-v2.json",
       text |-> "Indicators (JSON, 12 KB)"],
      [href |-> "/sites/default/files/site-config.json", text |-> "Download"],
      [href |-> "/sites/default/files/AA-advisory.pdf",
       text |-> "Download the PDF version of this report"],
      [href |-> "/sites/default/files/AA-advisory-508c.pdf", text |-> "PDF (508)"],
      [href |-> "/about", text |-> "About CISA"] }

EnrichPages == UNION { [1..n -> EnrichAnchors] : n \in 0..MaxAnchors }

\* the detail pages served while update runs, as their anchors in document
\* order: no artifact link; the PDF link alone; a JSON link told by its text
\* alone; the STIX link and the PDF link
DetailPages ==
    { << [href |-> "/about", text |-> "About CISA"] >>,
      << [href |-> "https://www.cisa.gov/sites/default/files/AA-indicators-v2.json",
          text |-> "Indicators (JSON, 12 KB)"] >>,
      << [href |-> "/sites/default/files/AA-advisory.pdf",
          text |-> "Download the PDF version of this report"] >>,
      << [href |-> "/sites/default/files/AA-StopRansomware-STIX.json",
          text |-> "AA STIX JSON"],
         [href |-> "/sites/default/files/AA-advisory.pdf",
          text |-> "Download the PDF version of this report"] >> }

\* _polite_get(url): time.sleep(REQUEST_DELAY), then session.get(url, ...)
GetWithoutDelay == <<"get">>

PoliteGet == <<"sleep", "get">>

\* download_file(url, dest_dir, filename): [path, files, wire]; the file
\* already in dest_dir is returned without a request; `served` is what the
\* request gives, RequestFails or the file's content
DownloadFile(files, key, served) ==
    IF key \in DOMAIN files
    THEN [path |-> key, files |-> files, wire |-> <<>>]
    ELSE IF served = RequestFails
    THEN [path |-> None, files |-> files, wire |-> PoliteGet]
    ELSE [path |-> key,
          files |-> [k \in DOMAIN files \cup {key} |->
                        IF k = key THEN served ELSE files[k]],
          wire |-> PoliteGet]

\* download_stix(advisory) / download_pdf(advisory)
DownloadStix(files, advisory, served) ==
    IF ~Truthy(advisory.stix_url)
    THEN [path |-> None, files |-> files, wire |-> <<>>]
    ELSE DownloadFile(files, <<advisory.advisory_id, "stix">>, served)

DownloadPdf(files, advisory, served) ==
    IF ~Truthy(advisory.pdf_url)
    THEN [path |-> None, files |-> files, wire |-> <<>>]
    ELSE DownloadFile(files, <<advisory.advisory_id, "pdf">>, served)

\* ----------------------------------------------------------- stix_parser.py
\* A STIX file: json is what json.load makes of it ("invalid": it raises;
\* "dict"; "list"), objects the value of its "objects" key, each object with
\* its type and its pattern string, the pattern as its bracketed comparison
\* clauses in order (joined by AND in the file).
StixInvalid == [kind |-> "stix", json |-> "invalid", has_objects |-> FALSE, objects |-> <<>>]

\* [ipv4-addr:value = '193.233.254.21'] AND [domain-name:value = 'evil.example'],
\* a second indicator repeating the address, and a malware object
StixBundle ==
    [kind |-> "stix", json |-> "dict", has_objects |-> TRUE,
     objects |-> << [type |-> "indicator",
                     pattern |-> << "[ipv4-addr:value = '193.233.254.21']",
                                    "[domain-name:value = 'evil.example']" >>],
                    [type |-> "malware", pattern |-> <<>>],
                    [type |-> "indicator",
                     pattern |-> << "[ipv4-addr:value = '193.233.254.21']" >>] >>]

\* the STIX files served while update runs
StixFiles == {StixInvalid, StixBundle}

\* The clauses a pattern may hold.
StixClauses ==
    { "[ipv4-addr:value = '193.233.254.21']",
      "[domain-name:value = 'evil.example']",
      "[file:hashes.'SHA-256' = 'ab12']",
      "[file:hashes.MD5 = 'ab12']",
      "[x509-certificate:hashes.'SHA-1' = 'ab12']",
      "[file:name = 'evil.exe']",
      "[ipv6-addr:value = '2001:db8::21']",
      "[url:value='http://evil.example/p']" }

\* the match of _PATTERN_RE on one clause, <<group(1), group(2)>> in a list,
\* <<>> when the clause does not match:
\* \[(\S+?)(?::value|\:hashes\.\S+?)\s*=\s*'([^']+)'\]
ClauseMatch(clause) ==
    CASE clause = "[ipv4-addr:value = '193.233.254.21']"
            -> << <<"ipv4-addr", "193.233.254.21">> >>
      [] clause = "[domain-name:value = 'evil.example']"
            -> << <<"domain-name", "evil.example">> >>
      [] clause = "[file:hashes.'SHA-256' = 'ab12']" -> << <<"file", "ab12">> >>
      [] clause = "[file:hashes.MD5 = 'ab12']" -> << <<"file", "ab12">> >>
      [] clause = "[x509-certificate:hashes.'SHA-1' = 'ab12']"
            -> << <<"x509-certificate", "ab12">> >>
      [] clause = "[ipv6-addr:value = '2001:db8::21']"
            -> << <<"ipv6-addr", "2001:db8::21">> >>
      [] clause = "[url:value='http://evil.example/p']"
            -> << <<"url", "http://evil.example/p">> >>
      [] OTHER -> <<>>

\* _PATTERN_RE.finditer(pattern): the matches in the order of the clauses
RECURSIVE PatternFindIter(_)
PatternFindIter(pattern) ==
    IF pattern = <<>> THEN <<>>
    ELSE ClauseMatch(Head(pattern)) \o PatternFindIter(Tail(pattern))

\* _TYPE_MAP.get(raw_type, raw_type)
TypeMapIdentity(raw_type) == raw_type

TypeMap(raw_type) ==
    CASE raw_type = "ipv4-addr" -> "ipv4-addr"
      [] raw_type = "ipv6-addr" -> "ipv6-addr"
      [] raw_type = "domain-name" -> "domain-name"
      [] raw_type = "url" -> "url"
      [] raw_type = "file" -> "file:hashes"
      [] OTHER -> raw_type

\* the loops of parse_stix_file: records so far, over the objects left
RECURSIVE StixMatches(_, _, _)
StixMatches(matches, advisory_id, records) ==
    IF matches = <<>> THEN records
    ELSE LET ioc_type == TypeMap(Head(matches)[1])
             value == Head(matches)[2]
             seen == { <<records[k].ioc_type, records[k].value>> : k \in DOMAIN records }
         IN StixMatches(Tail(matches), advisory_id,
                IF <<ioc_type, value>> \notin seen
                THEN Append(records, IOCRecord(ioc_type, value, advisory_id, "stix"))
                ELSE records)

RECURSIVE StixObjects(_, _, _)
StixObjects(objects, advisory_id, records) ==
    IF objects = <<>> THEN records
    ELSE StixObjects(Tail(objects), advisory_id,
            IF Head(objects).type # "indicator" THEN records
            ELSE StixMatches(PatternFindIter(Head(objects).pattern), advisory_id,
                             records))

\* parse_stix_file(path, advisory_id)
ParseStixFile(file, advisory_id) ==
    IF file.json = "invalid" THEN Raised("json.JSONDecodeError")
    ELSE IF file.json # "dict" THEN Raised("AttributeError")
    ELSE Returned(StixObjects(IF file.has_objects THEN file.objects ELSE <<>>,
                              advisory_id, <<>>))

\* ------------------------------------------------- pdf_parser.py, defang.py
\* A PDF file: the text page.extract_text() gives for each page as its
\* whitespace-separated words, <<>> for a page that gives no text.
PdfReport ==
    [kind |-> "pdf",
     pages |-> << <<"C2", "server", "193[.]233[.]254[.]21", "and", "999.999.999.999">>,
                  <<>>,
                  <<"193.233.254.21", "again,", "then", "45(dot)11(dot)181(dot)44">> >>]

\* the PDF files served while update runs
PdfFiles == {PdfReport}

\* The characters of the texts handed to refang_ip one character at a time:
\* the brackets and the dot of the defanged notations, the letters of "dot"
\* in both cases, a digit.
Chars == {"[", "]", "(", ")", ".", "d", "O", "t", "1"}

\* re.IGNORECASE on the letters of _DOT_PATTERNS
LowerChar(c) ==
    CASE c = "O" -> "o" [] c = "D" -> "d" [] c = "T" -> "t" [] OTHER -> c

\* the length of the match of _DOT_RE at the start of text, 0 when none:
\* \[\.\] | \[dot\] | \(dot\) | \(\.\)
DotMatch(text) ==
    LET at(i) == IF i <= Len(text) THEN LowerChar(text[i]) ELSE ""
    IN IF at(1) = "[" /\ at(2) = "." /\ at(3) = "]" THEN 3
       ELSE IF at(1) = "[" /\ at(2) = "d" /\ at(3) = "o" /\ at(4) = "t" /\ at(5) = "]"
       THEN 5
       ELSE IF at(1) = "(" /\ at(2) = "d" /\ at(3) = "o" /\ at(4) = "t" /\ at(5) = ")"
       THEN 5
       ELSE IF at(1) = "(" /\ at(2) = "." /\ at(3) = ")" THEN 3
       ELSE 0

\* refang_ip(text) = _DOT_RE.sub(".", text): one pass, left to right, over
\* the matches that do not overlap
RECURSIVE Refang(_)
Refang(text) ==
    IF text = <<>> THEN <<>>
    ELSE IF DotMatch(text) > 0
    THEN <<".">> \o Refang(SubSeq(text, DotMatch(text) + 1, Len(text)))
    ELSE <<Head(text)>> \o Refang(Tail(text))

\* the characters \d matches, and those \w matches (\b lies between a
\* character of \w and one that is not)
DigitChars == {"0", "1", "2", "3", "4", "5", "6", "7", "8", "9"}

WordChars ==
    DigitChars \cup
    {"a", "b", "c", "d", "e", "f", "g", "h", "i", "j", "k", "l", "m", "n", "o", "p",
     "q", "r", "s", "t", "u", "v", "w", "x", "y", "z", "D", "O", "T", "_"}

\* the character at position i of text, "" outside it
CharAt(text, i) == IF i \in 1..Len(text) THEN text[i] ELSE ""

\* \b just before position i
WordBoundary(text, i) ==
    (CharAt(text, i - 1) \in WordChars) # (CharAt(text, i) \in WordChars)

\* (?:25[0-5]|2[0-4]\d|[01]?\d\d?) at position i: the positions after each
\* way to match, in the order the regex engine tries them
OctetEndsAnyThreeDigits(text, i) ==
    LET d(j) == CharAt(text, j) \in DigitChars
    IN (IF d(i) /\ d(i + 1) /\ d(i + 2) THEN <<i + 3>> ELSE <<>>)
       \o (IF d(i) /\ d(i + 1) THEN <<i + 2>> ELSE <<>>)
       \o (IF d(i) THEN <<i + 1>> ELSE <<>>)

OctetEnds(text, i) ==
    LET c(j) == CharAt(text, j)
        d(j) == c(j) \in DigitChars
    IN (IF c(i) = "2" /\ c(i + 1) = "5" /\ c(i + 2) \in {"0", "1", "2", "3", "4", "5"}
        THEN <<i + 3>> ELSE <<>>)
       \o (IF c(i) = "2" /\ c(i + 1) \in {"0", "1", "2", "3", "4"} /\ d(i + 2)
           THEN <<i + 3>> ELSE <<>>)
       \o (IF c(i) \in {"0", "1"} /\ d(i + 1) /\ d(i + 2) THEN <<i + 3>> ELSE <<>>)
       \o (IF c(i) \in {"0", "1"} /\ d(i + 1) THEN <<i + 2>> ELSE <<>>)
       \o (IF d(i) /\ d(i + 1) THEN <<i + 2>> ELSE <<>>)
       \o (IF d(i) THEN <<i + 1>> ELSE <<>>)

\* the rest of _IPV4_RE from position i with k octets to go, each but the
\* last followed by a dot and the last by \b: the position after the match,
\* 0 when every way fails
RECURSIVE Ipv4Rest(_, _, _)
Ipv4Rest(text, i, k) ==
    LET ends == OctetEnds(text, i)
        after(e) == IF k = 1 THEN (IF WordBoundary(text, e) THEN e ELSE 0)
                    ELSE IF CharAt(text, e) = "." THEN Ipv4Rest(text, e + 1, k - 1)
                    ELSE 0
        good == { j \in DOMAIN ends : after(ends[j]) # 0 }
    IN IF good = {} THEN 0
       ELSE after(ends[CHOOSE j \in good : \A m \in good : j <= m])

\* _IPV4_RE matched at position i
Ipv4MatchAt(text, i) == IF WordBoundary(text, i) THEN Ipv4Rest(text, i, 4) ELSE 0

\* _IPV4_RE.finditer(cleaned) from position i: the matches left to right,
\* each search starting where the match before ended
RECURSIVE Ipv4FindIter(_, _)
Ipv4FindIter(cleaned, i) ==
    IF i > Len(cleaned) THEN <<>>
    ELSE IF Ipv4MatchAt(cleaned, i) # 0
    THEN <<SubSeq(cleaned, i, Ipv4MatchAt(cleaned, i) - 1)>>
         \o Ipv4FindIter(cleaned, Ipv4MatchAt(cleaned, i))
    ELSE Ipv4FindIter(cleaned, i + 1)

\* ip in seen
IpNeverSeen(ip, result) == FALSE

IpSeen(ip, result) == \E k \in DOMAIN result : result[k] = ip

\* the loop of extract_ips_from_text over the matches
RECURSIVE ExtractLoop(_, _)
ExtractLoop(matches, result) ==
    IF matches = <<>> THEN result
    ELSE ExtractLoop(Tail(matches),
            IF IpSeen(Head(matches), result) THEN result
            ELSE Append(result, Head(matches)))

\* extract_ips_from_text(text), the text one character at a time
ExtractIpsFromText(text) == ExtractLoop(Ipv4FindIter(Refang(text), 1), <<>>)

\* ------------------------------------------------------------------ search.py
\* lookup_ip(raw_query), the query one character at a time
LookupIp(advs, rows, raw_query) ==
    LET normalized == Refang(Strip(raw_query))
        result == SearchIp(advs, rows, normalized)
    IN [result EXCEPT !.query = Strip(raw_query), !.normalized_ip = normalized]

\* refang_ip on one word: Refang of its characters
RefangIp(word) ==
    CASE word = "193[.]233[.]254[.]21" -> "193.233.254.21"
      [] word = "45(dot)11(dot)181(dot)44" -> "45.11.181.44"
      [] OTHER -> word

\* the matches of _IPV4_RE in one refanged word: Ipv4FindIter of its
\* characters
Ipv4In(word) ==
    IF word \in {"193.233.254.21", "45.11.181.44"} THEN <<word>> ELSE <<>>

\* extract_ips_from_text(text), the text as its words in order
RECURSIVE ExtractIps(_, _)
ExtractIps(words, result) ==
    IF words = <<>> THEN result
    ELSE LET found == Ipv4In(RefangIp(Head(words)))
             seen == { result[k] : k \in DOMAIN result }
         IN ExtractIps(Tail(words),
                IF found # <<>> /\ found[1] \notin seen
                THEN Append(result, found[1]) ELSE result)

\* "\n".join(text_parts) of the pages that have text
RECURSIVE JoinPages(_)
JoinPages(pages) ==
    IF pages = <<>> THEN <<>>
    ELSE (IF Head(pages) # <<>> THEN Head(pages) ELSE <<>>) \o JoinPages(Tail(pages))

\* parse_pdf_file(path, advisory_id)
ParsePdfFile(file, advisory_id) ==
    LET ips == ExtractIps(JoinPages(file.pages), <<>>)
    IN Returned([k \in DOMAIN ips |-> IOCRecord("ipv4-addr", ips[k], advisory_id, "pdf")])

\* ---------------------------------------------------- the index's callers
\* Arguments a direct caller of the index passes (the calls of
\* tests/test_database.py, over two advisories).
ApiAdvisoryIds == {"aa23-061a", "aa24-109a"}

\* per advisory id: as discovered (no date, no artifact URLs) and as in
\* sample_advisory after its title was updated
ApiAdvisories ==
    { Advisory(id, "#StopRansomware: Royal Ransomware", DetailUrl(id), None, None, None)
        : id \in ApiAdvisoryIds }
    \cup
    { Advisory(id, "#StopRansomware: Royal Ransomware (Updated)",
               "https://www.cisa.gov/cybersecurity-advisories/" \o id,
               IF id = "aa23-061a" THEN DT_2023_03_02 ELSE DT_2024_04_18,
               "https://example.com/stix.json", "https://example.com/advisory.pdf")
        : id \in ApiAdvisoryIds }

Sources == {"stix", "pdf"}

\* the records a caller inserts: one IPv4 address under both sources of one
\* advisory and under a second advisory, an IPv6 address and a domain name
ApiRecords ==
    { IOCRecord("ipv4-addr", "193.233.254.21", "aa23-061a", "stix"),
      IOCRecord("ipv4-addr", "193.233.254.21", "aa23-061a", "pdf"),
      IOCRecord("ipv4-addr", "193.233.254.21", "aa24-109a", "stix"),
      IOCRecord("ipv6-addr", "2001:db8::21", "aa23-061a", "stix"),
      IOCRecord("domain-name", "evil.example.com", "aa24-109a", "pdf") }

\* the lists of at most MaxBatch records
ApiBatches == UNION { [1..n -> ApiRecords] : n \in 0..MaxBatch }

ApiQueries == { r.value : r \in ApiRecords } \cup {"8.8.8.8"}

\* ------------------------------------------- extract_ips_from_text's callers
\* The octets of a dotted quad as written, around every limit of the three
\* alternatives of _IPV4_RE.
Octets ==
    { <<"0">>, <<"7">>, <<"0", "0", "7">>, <<"9", "9">>, <<"1", "9", "9">>,
      <<"2", "0", "0">>, <<"2", "4", "9">>, <<"2", "5", "0">>, <<"2", "5", "5">>,
      <<"2", "5", "6">>, <<"2", "6", "0">>, <<"3", "0", "0">>, <<"9", "9", "9">>,
      <<"1", "0", "0", "0">> }

\* a dotted quad as it stands in a text
Quad(octets, dot) ==
    octets[1] \o dot \o octets[2] \o dot \o octets[3] \o dot \o octets[4]

\* the words of the sentences: two addresses in several spellings of the
\* dot, a quad that is no address in two, a word
SentenceWords ==
    LET a == << <<"1", "0">>, <<"0">>, <<"0">>, <<"1">> >>
        b == << <<"2", "5", "5">>, <<"2", "5", "5">>, <<"2", "5", "5">>, <<"2", "5", "5">> >>
        x == << <<"9", "9", "9">>, <<"9", "9", "9">>, <<"9", "9", "9">>, <<"9", "9", "9">> >>
    IN { [octets |-> a, dot |-> <<".">>], [octets |-> a, dot |-> <<"[", ".", "]">>],
         [octets |-> a, dot |-> <<"(", "D", "O", "T", ")">>],
         [octets |-> b, dot |-> <<".">>], [octets |-> b, dot |-> <<"[", "d", "o", "t", "]">>],
         [octets |-> x, dot |-> <<".">>], [octets |-> x, dot |-> <<"(", ".", ")">>],
         [octets |-> <<>>, dot |-> <<"a", "n", "d">>] }

\* a word as characters: a quad, or the word itself when it has no octets
WordText(w) == IF w.octets = <<>> THEN w.dot ELSE Quad(w.octets, w.dot)

\* the words in order with one space between them
RECURSIVE SentenceText(_)
SentenceText(words) ==
    IF words = <<>> THEN <<>>
    ELSE IF Len(words) = 1 THEN WordText(words[1])
    ELSE WordText(Head(words)) \o <<" ">> \o SentenceText(Tail(words))

\* the texts handed to extract_ips_from_text, as their words: every quad
\* over Octets alone, and every sentence of at most MaxWords words
ExtractInputs ==
    { << [octets |-> o, dot |-> <<".">>] >> : o \in [1..4 -> Octets] }
    \cup UNION { [1..n -> SentenceWords] : n \in 0..MaxWords }

\* the advisories whose groups are listed: three ids under titles with the
\* prefix, with the prefix without its space, and without the prefix
GroupAdvisoryIds == {"aa23-061a", "aa24-109a", "aa25-071a"}

GroupTitles ==
    {"#StopRansomware: Play", "#StopRansomware: Akira", "#StopRansomware:Akira", "Conti"}

GroupAdvisories ==
    { Advisory(id, title, DetailUrl(id), None, None, None) :
        id \in GroupAdvisoryIds, title \in GroupTitles }

\* the index a lookup runs against: an address, one character at a time,
\* under both sources of one advisory and under a second advisory
LookupOctets == << <<"1", "0">>, <<"0">>, <<"0">>, <<"1">> >>

LookupRecords ==
    { IOCRecord("ipv4-addr", Quad(LookupOctets, <<".">>), "aa23-061a", "stix"),
      IOCRecord("ipv4-addr", Quad(LookupOctets, <<".">>), "aa23-061a", "pdf"),
      IOCRecord("ipv4-addr", Quad(LookupOctets, <<".">>), "aa24-109a", "stix") }

\* the queries: the stored address and one that is not stored, plain and
\* defanged, with and without a space around them
LookupQueries ==
    LET other == << <<"7">>, <<"7">>, <<"7">>, <<"7">> >>
        plain == { Quad(o, d) : o \in {LookupOctets, other},
                                d \in { <<".">>, <<"[", ".", "]">>, <<"(", "d", "o", "t", ")">>,
                                        <<"[", "D", "O", "T", "]">>, <<"(", ".", ")">> } }
    IN plain \cup { <<" ">> \o q : q \in plain } \cup { q \o <<" ">> : q \in plain }

\* ------------------------------------------------------------------ state
indexVars == <<advisories, iocs, call, ret, upserted>>
vars == <<advisories, iocs, call, ret, upserted, disc, run, cache, last_parse, listing_log, rerun, wire>>

DiscIdle ==
    [pc |-> "idle", entry |-> "discover_advisories", refresh |-> FALSE,
     known_ids |-> {}, page_num |-> 0,
     discovered |-> <<>>, fetched |-> 0, failed |-> FALSE, live |-> <<>>,
     result |-> <<>>]

RunIdle ==
    [pc |-> "idle", include_pdfs |-> FALSE, discover |-> FALSE, queue |-> <<>>,
     idx |-> 0, adv |-> NoAdvisory, detail_failed |-> FALSE, is_new |-> FALSE,
     error |-> None]

\* no world fixed yet
NoRerun ==
    [fixed |-> FALSE, include_pdfs |-> FALSE, detail |-> <<>>, stix |-> NoFile,
     pdf |-> NoFile, before |-> <<>>, stopped |-> FALSE]

\* init_db() on a fresh database file, nothing downloaded, no command running
Init ==
    /\ advisories = <<>>
    /\ iocs = <<>>
    /\ call = [op |-> "init_db"]
    /\ ret = Returned(None)
    /\ upserted = [id \in {} |-> None]
    /\ disc = DiscIdle
    /\ run = RunIdle
    /\ cache = [k \in {} |-> NoFile]
    /\ last_parse = [k \in {} |-> <<>>]
    /\ listing_log = <<>>
    /\ rerun = NoRerun
    /\ wire = <<>>

\* ------------------------------------------------------- index operations
\* upsert_advisory(adv)
upsert_advisory(adv) ==
    /\ advisories' = UpsertRows(advisories, AdvisoryRow(adv))
    /\ call' = [op |-> "upsert_advisory", adv |-> adv]
    /\ ret' = Returned(None)
    /\ upserted' = [id \in DOMAIN upserted \cup {adv.advisory_id} |->
                      IF id = adv.advisory_id THEN adv ELSE upserted[id]]
    /\ UNCHANGED iocs

\* insert_iocs(records)
insert_iocs(records) ==
    LET r == InsertIocs(advisories, iocs, records) IN
    /\ iocs' = r.iocs
    /\ call' = [op |-> "insert_iocs", records |-> records]
    /\ ret' = [raised |-> r.raised, value |-> r.value]
    /\ UNCHANGED <<advisories, upserted>>

\* clear_iocs_for_advisory(advisory_id, source)
clear_iocs_for_advisory(advisory_id, source) ==
    /\ iocs' = ClearIocs(iocs, advisory_id, source)
    /\ call' = [op |-> "clear_iocs_for_advisory", advisory_id |-> advisory_id,
                source |-> source]
    /\ ret' = Returned(None)
    /\ UNCHANGED <<advisories, upserted>>

\* search_ip(ip)
search_ip(ip) ==
    /\ call' = [op |-> "search_ip", ip |-> ip]
    /\ ret' = Returned(SearchIp(advisories, iocs, ip))
    /\ UNCHANGED <<advisories, iocs, upserted>>

\* get_stats()
get_stats ==
    /\ call' = [op |-> "get_stats"]
    /\ ret' = Returned(GetStats(advisories, iocs))
    /\ UNCHANGED <<advisories, iocs, upserted>>

\* list_groups()
list_groups ==
    /\ call' = [op |-> "list_groups"]
    /\ \E rows \in OrderByTitle(advisories) : ret' = Returned(ListGroups(rows))
    /\ UNCHANGED <<advisories, iocs, upserted>>

\* a caller of the index operations, in any order
UpsertCall ==
    /\ \E adv \in ApiAdvisories : upsert_advisory(adv)
    /\ UNCHANGED <<disc, run, cache, last_parse, listing_log, rerun, wire>>

InsertCall ==
    /\ \E records \in ApiBatches :
          /\ Len(InsertIocs(advisories, iocs, records).iocs) <= MaxIocs
          /\ insert_iocs(records)
    /\ UNCHANGED <<disc, run, cache, last_parse, listing_log, rerun, wire>>

ClearCall ==
    /\ \E id \in ApiAdvisoryIds, source \in Sources \cup {None} :
          clear_iocs_for_advisory(id, source)
    /\ UNCHANGED <<disc, run, cache, last_parse, listing_log, rerun, wire>>

SearchCall ==
    /\ \E ip \in ApiQueries : search_ip(ip)
    /\ UNCHANGED <<disc, run, cache, last_parse, listing_log, rerun, wire>>

NextIndex == UpsertCall \/ InsertCall \/ ClearCall \/ SearchCall

SpecIndex == Init /\ [][NextIndex]_vars

\* the same caller with the two reports among its calls
StatsCall ==
    /\ get_stats
    /\ UNCHANGED <<disc, run, cache, last_parse, listing_log, rerun, wire>>

ListGroupsCall ==
    /\ list_groups
    /\ UNCHANGED <<disc, run, cache, last_parse, listing_log, rerun, wire>>

NextIndexReports == NextIndex \/ StatsCall \/ ListGroupsCall

SpecIndexReports == Init /\ [][NextIndexReports]_vars

\* a caller that fills the index and looks addresses up
LookupUpsertCall ==
    /\ \E adv \in { a \in ApiAdvisories : a.published # None } : upsert_advisory(adv)
    /\ UNCHANGED <<disc, run, cache, last_parse, listing_log, rerun, wire>>

LookupInsertCall ==
    /\ \E record \in LookupRecords :
          /\ Len(InsertIocs(advisories, iocs, <<record>>).iocs) <= MaxIocs
          /\ insert_iocs(<<record>>)
    /\ UNCHANGED <<disc, run, cache, last_parse, listing_log, rerun, wire>>

\* lookup_ip(raw_query)
LookupCall ==
    /\ \E raw_query \in LookupQueries :
          /\ call' = [op |-> "lookup_ip", raw_query |-> raw_query]
          /\ ret' = Returned(LookupIp(advisories, iocs, raw_query))
    /\ UNCHANGED <<advisories, iocs, upserted, disc, run, cache, last_parse,
                   listing_log, rerun, wire>>

NextLookup == LookupUpsertCall \/ LookupInsertCall \/ LookupCall

SpecLookup == Init /\ [][NextLookup]_vars

\* a caller that stores advisories under any titles and lists the groups
GroupUpsertCall ==
    /\ \E adv \in GroupAdvisories : upsert_advisory(adv)
    /\ UNCHANGED <<disc, run, cache, last_parse, listing_log, rerun, wire>>

NextGroups == GroupUpsertCall \/ ListGroupsCall

SpecGroups == Init /\ [][NextGroups]_vars

\* ------------------------------------------------------------- discovery
\* discover_advisories(refresh=False): the catalog, no fetch
DiscoverCatalogOnly ==
    disc' = [DiscIdle EXCEPT !.pc = "done", !.result = CatalogAdvisories]

\* discover_advisories(refresh=True) up to the first listing fetch:
\* discover_advisories_live(known_ids=set()) is entered
DiscoverRefresh ==
    disc' = [DiscIdle EXCEPT !.pc = "live", !.refresh = TRUE]

\* discover_advisories_live(known_ids) called by itself, up to the first
\* listing fetch
DiscoverLive(known_ids) ==
    disc' = [DiscIdle EXCEPT !.pc = "live", !.entry = "discover_advisories_live",
                             !.known_ids = known_ids]

\* the loop of discover_advisories_live has ended with `live`: the function
\* returns it, and discover_advisories, when it was the caller, returns the merge
DiscoverReturn(d, live) ==
    [d EXCEPT !.pc = "done", !.live = live,
              !.result = IF d.entry = "discover_advisories_live" THEN live
                         ELSE MergeLiveAndCatalog(live, CatalogAdvisories)]

\* `except requests.RequestException: break` on the fetch of a listing page
RetryNextPage(d) ==
    IF d.page_num + 1 >= MAX_DISCOVERY_PAGES
    THEN DiscoverReturn([d EXCEPT !.fetched = @ + 1, !.failed = TRUE], d.discovered)
    ELSE [d EXCEPT !.fetched = @ + 1, !.failed = TRUE, !.page_num = @ + 1]

OnRequestException(d) ==
    DiscoverReturn([d EXCEPT !.fetched = @ + 1, !.failed = TRUE], d.discovered)

\* range(MAX_DISCOVERY_PAGES) is exhausted after page page_num
RangeOneTooLong(page_num) == page_num >= MAX_DISCOVERY_PAGES

RangeExhausted(page_num) == page_num + 1 >= MAX_DISCOVERY_PAGES

\* one iteration of `for page_num in range(MAX_DISCOVERY_PAGES)`: the fetch of
\* page page_num and the scan of its anchors; when the loop ends here, the
\* rest of discover_advisories runs too
LivePageFails ==
    /\ disc.pc = "live"
    /\ wire' = PoliteGet
    /\ disc' = OnRequestException(disc)

LivePage(anchors) ==
    /\ disc.pc = "live"
    /\ wire' = PoliteGet
    /\ LET scan == ScanAnchors(anchors, disc.known_ids,
                               [discovered |-> disc.discovered,
                                links_found |-> 0, new_on_page |-> 0])
           d == [disc EXCEPT !.fetched = @ + 1, !.discovered = scan.discovered]
       IN disc' = IF \/ StopAfterPage(scan.links_found, scan.new_on_page)
                     \/ RangeExhausted(disc.page_num)
                  THEN DiscoverReturn(d, scan.discovered)
                  ELSE [d EXCEPT !.page_num = @ + 1]

\* a caller of discover_advisories, against any listing
CatalogOnlyCall ==
    /\ disc.pc # "live"
    /\ DiscoverCatalogOnly
    /\ UNCHANGED <<indexVars, run, cache, last_parse, listing_log, rerun, wire>>

RefreshCall ==
    /\ disc.pc # "live"
    /\ DiscoverRefresh
    /\ UNCHANGED <<indexVars, run, cache, last_parse, listing_log, rerun, wire>>

ListingFetchFails ==
    /\ LivePageFails
    /\ UNCHANGED <<indexVars, run, cache, last_parse, listing_log, rerun>>

ListingFetchArrives ==
    /\ \E anchors \in ListingPages : LivePage(anchors)
    /\ UNCHANGED <<indexVars, run, cache, last_parse, listing_log, rerun>>

NextDiscover == CatalogOnlyCall \/ RefreshCall \/ ListingFetchFails \/ ListingFetchArrives

\* discover_advisories called any number of times against any listing
SpecDiscover == Init /\ [][NextDiscover]_vars

\* a caller of discover_advisories_live, with any known ids, against any
\* listing; listing_log keeps what each fetch of the call was asked and gave
KnownIdSets == SUBSET {"aa25-203a", "aa25-999a"}

LoggedFetch(failed, anchors) ==
    Append(listing_log, [page_num |-> disc.page_num, failed |-> failed,
                         anchors |-> anchors])

LiveCall ==
    /\ disc.pc # "live"
    /\ \E known_ids \in KnownIdSets : DiscoverLive(known_ids)
    /\ listing_log' = <<>>
    /\ UNCHANGED <<indexVars, run, cache, last_parse, rerun, wire>>

LiveFetchFails ==
    /\ LivePageFails
    /\ listing_log' = LoggedFetch(TRUE, <<>>)
    /\ UNCHANGED <<indexVars, run, cache, last_parse, rerun>>

LiveFetchArrives ==
    /\ \E anchors \in ListingPages :
          /\ LivePage(anchors)
          /\ listing_log' = LoggedFetch(FALSE, anchors)
    /\ UNCHANGED <<indexVars, run, cache, last_parse, rerun>>

NextLive == LiveCall \/ LiveFetchFails \/ LiveFetchArrives

\* discover_advisories_live called any number of times
SpecLive == Init /\ [][NextLive]_vars

\* the same, every fetch coming back: _polite_get returns or raises within
\* REQUEST_TIMEOUT, and the loop goes on by itself
SpecLiveFair == SpecLive /\ WF_vars(LiveFetchFails \/ LiveFetchArrives)

\* ----------------------------------------------------------- enrich_advisory
\* the advisories handed to enrich_advisory: as discovered, and with artifact
\* URLs of an earlier enrichment
EnrichInputs ==
    Range(CatalogAdvisories) \cup
    { [CatalogAdvisories[k] EXCEPT
          !.stix_url = "https://www.cisa.gov/sites/default/files/AA-old-STIX.json",
          !.pdf_url = "https://www.cisa.gov/sites/default/files/AA-old.pdf"] :
        k \in DOMAIN CatalogAdvisories }

\* enrich_advisory(advisory) called by itself, against any detail page
EnrichCall ==
    /\ \E advisory \in EnrichInputs, page \in EnrichPages \cup {<<RequestFails>>} :
          /\ call' = [op |-> "enrich_advisory", advisory |-> advisory, page |-> page]
          /\ ret' = Returned(Enriched(advisory, page))
    /\ wire' = PoliteGet
    /\ UNCHANGED <<advisories, iocs, upserted, disc, run, cache, last_parse,
                   listing_log, rerun>>

NextEnrich == EnrichCall

SpecEnrich == Init /\ [][NextEnrich]_vars

\* ------------------------------------------------------ extract_ips_from_text
\* extract_ips_from_text(text), called once on any text
ExtractCall ==
    /\ call.op = "init_db"
    /\ \E words \in ExtractInputs :
          /\ call' = [op |-> "extract_ips_from_text", words |-> words,
                      text |-> SentenceText(words)]
          /\ ret' = ExtractIpsFromText(SentenceText(words))
    /\ UNCHANGED <<advisories, iocs, upserted, disc, run, cache, last_parse,
                   listing_log, rerun, wire>>

NextExtract == ExtractCall

SpecExtract == Init /\ [][NextExtract]_vars

\* ----------------------------------------------------------- parse_stix_file
\* the objects of a STIX document: indicators with any pattern, and an object
\* of another type whose pattern holds a clause
StixObjectPool ==
    { [type |-> "indicator", pattern |-> p] :
        p \in UNION { [1..n -> StixClauses] : n \in 0..MaxClauses } }
    \cup { [type |-> "malware",
            pattern |-> << "[ipv4-addr:value = '193.233.254.21']" >>] }

\* the files handed to parse_stix_file
StixDocuments ==
    { [kind |-> "stix", json |-> "dict", has_objects |-> TRUE, objects |-> o] :
        o \in UNION { [1..n -> StixObjectPool] : n \in 0..MaxObjects } }
    \cup { StixInvalid,
           [kind |-> "stix", json |-> "dict", has_objects |-> FALSE, objects |-> <<>>],
           [kind |-> "stix", json |-> "list", has_objects |-> FALSE, objects |-> <<>>] }

\* parse_stix_file(path, advisory_id), called once on any file
ParseStixCall ==
    /\ call.op = "init_db"
    /\ \E file \in StixDocuments, advisory_id \in ApiAdvisoryIds :
          /\ call' = [op |-> "parse_stix_file", file |-> file,
                      advisory_id |-> advisory_id]
          /\ ret' = ParseStixFile(file, advisory_id)
    /\ UNCHANGED <<advisories, iocs, upserted, disc, run, cache, last_parse,
                   listing_log, rerun, wire>>

NextStix == ParseStixCall

SpecStix == Init /\ [][NextStix]_vars

\* ---------------------------------------------------------------- defang.py
\* the texts handed to refang_ip
Texts == UNION { [1..n -> Chars] : n \in 0..MaxText }

\* refang_ip(text), called once on any text
RefangCall ==
    /\ call.op = "init_db"
    /\ \E text \in Texts :
          /\ call' = [op |-> "refang_ip", text |-> text]
          /\ ret' = Returned(Refang(text))
    /\ UNCHANGED <<advisories, iocs, upserted, disc, run, cache, last_parse,
                   listing_log, rerun, wire>>

NextDefang == RefangCall

SpecDefang == Init /\ [][NextDefang]_vars

\* ---------------------------------------------------------- cli.py: update
\* the records stored for one (advisory, source) pair, in storage order
PairRecords(rows, pair) ==
    SelectSeq(rows, LAMBDA r : r.advisory_id = pair[1] /\ r.source = pair[2])

\* last_parse after update parsed `records` for the pair
NoteParse(pair, records) ==
    [k \in DOMAIN last_parse \cup {pair} |->
        IF k = pair THEN [records |-> records, again |-> pair \in DOMAIN last_parse]
        ELSE last_parse[k]]

\* the end of one pass of `for adv in advisories`
NextAdvisory(r) ==
    IF r.idx < Len(r.queue)
    THEN [r EXCEPT !.pc = "enrich", !.idx = @ + 1, !.adv = NoAdvisory,
                   !.detail_failed = FALSE, !.is_new = FALSE]
    ELSE RunIdle

\* after the STIX part of one pass
AfterStixAlwaysPdf(r) == [r EXCEPT !.pc = "pdf"]

AfterStix(r) == IF r.include_pdfs THEN [r EXCEPT !.pc = "pdf"] ELSE NextAdvisory(r)

\* an exception leaves update: the command ends where it stands
Aborted(r, exc) == [RunIdle EXCEPT !.error = exc]

\* update is invoked; discover_advisories(refresh=discover) is entered
UpdateStart(include_pdfs, discover) ==
    /\ run.pc = "idle"
    /\ run' = [RunIdle EXCEPT !.pc = "discover", !.include_pdfs = include_pdfs,
                              !.discover = discover]
    /\ IF discover THEN DiscoverRefresh ELSE DiscoverCatalogOnly
    /\ UNCHANGED <<indexVars, cache, last_parse, listing_log, wire>>

\* the listing fetches of update's discover_advisories call
UpdateListingFails ==
    /\ run.pc = "discover"
    /\ LivePageFails
    /\ UNCHANGED <<indexVars, run, cache, last_parse, listing_log, rerun>>

UpdateListingArrives ==
    /\ run.pc = "discover"
    /\ \E anchors \in UpdateListingPages : LivePage(anchors)
    /\ UNCHANGED <<indexVars, run, cache, last_parse, listing_log, rerun>>

\* discover_advisories has returned: `if not advisories: return`, else the
\* loop is entered
UpdateDiscovered ==
    /\ run.pc = "discover"
    /\ disc.pc = "done"
    /\ run' = IF disc.result = <<>> THEN RunIdle
              ELSE [run EXCEPT !.pc = "enrich", !.queue = disc.result, !.idx = 1]
    /\ disc' = DiscIdle
    /\ UNCHANGED <<indexVars, cache, last_parse, listing_log, rerun, wire>>

\* adv = enrich_advisory(adv); upsert_advisory(adv).  `page` is what the fetch
\* of the detail page gave
UpdateEnrichWithoutUpsert(page) ==
    /\ run.pc = "enrich"
    /\ LET adv == Enriched(run.queue[run.idx], page)
       IN run' = [run EXCEPT !.pc = "stix", !.adv = adv,
                             !.detail_failed = (page = <<RequestFails>>),
                             !.is_new = adv.advisory_id \notin AdvisoryIds(advisories)]
    /\ wire' = PoliteGet
    /\ UNCHANGED <<indexVars, disc, cache, last_parse, listing_log, rerun>>

UpdateEnrich(page) ==
    /\ run.pc = "enrich"
    /\ LET adv == Enriched(run.queue[run.idx], page)
       IN /\ upsert_advisory(adv)
          /\ run' = [run EXCEPT !.pc = "stix", !.adv = adv,
                                !.detail_failed = (page = <<RequestFails>>),
                                !.is_new = adv.advisory_id \notin AdvisoryIds(advisories)]
    /\ wire' = PoliteGet
    /\ UNCHANGED <<disc, cache, last_parse, listing_log, rerun>>

\* stix_path = download_stix(adv)
UpdateDownloadStix(served) ==
    /\ run.pc = "stix"
    /\ LET d == DownloadStix(cache, run.adv, served)
       IN /\ cache' = d.files
          /\ wire' = d.wire
          /\ run' = IF d.path = None THEN AfterStix(run)
                    ELSE [run EXCEPT !.pc = "stix_clear"]
    /\ UNCHANGED <<indexVars, disc, last_parse, listing_log, rerun>>

\* clear_iocs_for_advisory(adv.advisory_id, source="stix")
UpdateClearStix ==
    /\ run.pc = "stix_clear"
    /\ clear_iocs_for_advisory(run.adv.advisory_id, "stix")
    /\ run' = [run EXCEPT !.pc = "stix_parse"]
    /\ UNCHANGED <<disc, cache, last_parse, listing_log, rerun, wire>>

\* records = parse_stix_file(stix_path, adv.advisory_id);
\* total_iocs += insert_iocs(records)
UpdateParseStix ==
    /\ run.pc = "stix_parse"
    /\ LET pair == <<run.adv.advisory_id, "stix">>
           p == ParseStixFile(cache[pair], run.adv.advisory_id)
       IN IF p.raised
          THEN /\ run' = Aborted(run, p.value)
               /\ last_parse' = NoteParse(pair, <<>>)
               /\ UNCHANGED indexVars
          ELSE /\ insert_iocs(p.value)
               /\ last_parse' = NoteParse(pair, p.value)
               /\ run' = IF InsertIocs(advisories, iocs, p.value).raised
                         THEN Aborted(run, "sqlite3.IntegrityError")
                         ELSE AfterStix(run)
    /\ UNCHANGED <<disc, cache, listing_log, rerun, wire>>

\* pdf_path = download_pdf(adv)
UpdateDownloadPdf(served) ==
    /\ run.pc = "pdf"
    /\ LET d == DownloadPdf(cache, run.adv, served)
       IN /\ cache' = d.files
          /\ wire' = d.wire
          /\ run' = IF d.path = None THEN NextAdvisory(run)
                    ELSE [run EXCEPT !.pc = "pdf_clear"]
    /\ UNCHANGED <<indexVars, disc, last_parse, listing_log, rerun>>

\* clear_iocs_for_advisory(adv.advisory_id, source="pdf")
UpdateClearPdf ==
    /\ run.pc = "pdf_clear"
    /\ clear_iocs_for_advisory(run.adv.advisory_id, "pdf")
    /\ run' = [run EXCEPT !.pc = "pdf_parse"]
    /\ UNCHANGED <<disc, cache, last_parse, listing_log, rerun, wire>>

\* records = parse_pdf_file(pdf_path, adv.advisory_id);
\* total_iocs += insert_iocs(records)
UpdateParsePdf ==
    /\ run.pc = "pdf_parse"
    /\ LET pair == <<run.adv.advisory_id, "pdf">>
           p == ParsePdfFile(cache[pair], run.adv.advisory_id)
       IN /\ insert_iocs(p.value)
          /\ last_parse' = NoteParse(pair, p.value)
          /\ run' = IF InsertIocs(advisories, iocs, p.value).raised
                    THEN Aborted(run, "sqlite3.IntegrityError")
                    ELSE NextAdvisory(run)
    /\ UNCHANGED <<disc, cache, listing_log, rerun, wire>>

UpdateInvoked ==
    /\ \E include_pdfs \in BOOLEAN, discover \in BOOLEAN :
          UpdateStart(include_pdfs, discover)
    /\ UNCHANGED rerun

DetailFetch == \E page \in DetailPages \cup {<<RequestFails>>} : UpdateEnrich(page)

StixFetch == \E served \in StixFiles \cup {RequestFails} : UpdateDownloadStix(served)

PdfFetch == \E served \in PdfFiles \cup {RequestFails} : UpdateDownloadPdf(served)

NextUpdate ==
    \/ UpdateInvoked
    \/ UpdateListingFails
    \/ UpdateListingArrives
    \/ UpdateDiscovered
    \/ DetailFetch
    \/ StixFetch
    \/ UpdateClearStix
    \/ UpdateParseStix
    \/ PdfFetch
    \/ UpdateClearPdf
    \/ UpdateParsePdf

\* update run any number of times, one run after the other
SpecUpdate == Init /\ [][NextUpdate]_vars

\* ------------------------------------------- cli.py: update, re-run after a stop
\* The worlds update may be re-run in: what the detail pages and the artifact
\* downloads give, the same on every run, and the --include-pdfs flag used.
Worlds ==
    [fixed : {TRUE}, include_pdfs : BOOLEAN,
     detail : DetailPages \cup {<<RequestFails>>},
     stix : StixFiles \cup {RequestFails},
     pdf : PdfFiles \cup {RequestFails},
     before : {<<>>}, stopped : {FALSE}]

\* update is invoked over the catalog, in the world of the earlier runs
RerunInvoked ==
    \E w \in Worlds :
        /\ rerun.fixed => w = [rerun EXCEPT !.before = <<>>, !.stopped = FALSE]
        /\ UpdateStart(w.include_pdfs, FALSE)
        /\ rerun' = [w EXCEPT !.before = iocs, !.stopped = rerun.stopped]
        /\ UNCHANGED wire

\* the process is stopped (KeyboardInterrupt, kill) between two steps of update
UpdateInterrupted ==
    /\ run.pc # "idle"
    /\ run' = Aborted(run, "KeyboardInterrupt")
    /\ rerun' = [rerun EXCEPT !.stopped = TRUE]
    /\ UNCHANGED <<indexVars, disc, cache, last_parse, listing_log, wire>>

RerunDetailFetch == UpdateEnrich(rerun.detail)

RerunStixFetch == UpdateDownloadStix(rerun.stix)

RerunPdfFetch == UpdateDownloadPdf(rerun.pdf)

NextRerun ==
    \/ RerunInvoked
    \/ UpdateInterrupted
    \/ UpdateDiscovered
    \/ RerunDetailFetch
    \/ RerunStixFetch
    \/ UpdateClearStix
    \/ UpdateParseStix
    \/ RerunPdfFetch
    \/ UpdateClearPdf
    \/ UpdateParsePdf

\* update run, stopped and re-run any number of times in one world
SpecRerun == Init /\ [][NextRerun]_vars

\* ------------------------------------------------ the index over its life
\* a caller of the index between two runs of update: it stores an advisory
\* of its own and a record for it, clears records of a catalog advisory,
\* searches and reads the two reports
LifeAdvisory ==
    Advisory("aa23-061a", "#StopRansomware: Royal Ransomware", DetailUrl("aa23-061a"),
             None, None, None)

IndexCallBetweenRuns ==
    /\ run.pc = "idle"
    /\ \/ upsert_advisory(LifeAdvisory)
       \/ /\ Len(iocs) < MaxIocs
          /\ insert_iocs(<<IOCRecord("ipv4-addr", "193.233.254.21", "aa23-061a", "stix")>>)
       \/ \E source \in {"stix", None} :
             clear_iocs_for_advisory(ADVISORY_CATALOG[1][1], source)
       \/ search_ip("193.233.254.21")
       \/ get_stats
       \/ list_groups
    /\ UNCHANGED <<disc, run, cache, last_parse, listing_log, rerun, wire>>

\* runs of update in one world and calls of the index operations between
\* them, in any order
NextLife ==
    \/ RerunInvoked
    \/ UpdateDiscovered
    \/ RerunDetailFetch
    \/ RerunStixFetch
    \/ UpdateClearStix
    \/ UpdateParseStix
    \/ RerunPdfFetch
    \/ UpdateClearPdf
    \/ UpdateParsePdf
    \/ IndexCallBetweenRuns

SpecLife == Init /\ [][NextLife]_vars

\* ------------------------------------------------------ update properties
\* the (advisory, source) pair update is replacing at its current position
C1_PairInHand ==
    IF run.pc \in {"stix_clear", "stix_parse"} THEN {<<run.adv.advisory_id, "stix">>}
    ELSE IF run.pc \in {"pdf_clear", "pdf_parse"} THEN {<<run.adv.advisory_id, "pdf">>}
    ELSE {}

C1_PairsOf(rows) == { <<rows[k].advisory_id, rows[k].source>> : k \in DOMAIN rows }

\* every stored record is one the last parse of its pair produced
C1_NoStaleRecord ==
    \A k \in DOMAIN iocs :
        LET pair == <<iocs[k].advisory_id, iocs[k].source>>
        IN /\ pair \in DOMAIN last_parse
           /\ \E j \in DOMAIN last_parse[pair].records :
                 last_parse[pair].records[j] = iocs[k]

\* no (ioc_type, value) is stored twice for one pair
C1_NoDuplicateRecord ==
    \A j, k \in DOMAIN iocs :
        (/\ j # k
         /\ iocs[j].advisory_id = iocs[k].advisory_id
         /\ iocs[j].source = iocs[k].source
         /\ iocs[j].ioc_type = iocs[k].ioc_type)
        => iocs[j].value # iocs[k].value

\* a step of update leaves the records of every pair but the one in hand,
\* the other source of the same advisory among them, as they were
C1_OtherPairsUntouched ==
    \A pair \in (C1_PairsOf(iocs) \cup C1_PairsOf(iocs')) \ C1_PairInHand :
        PairRecords(iocs', pair) = PairRecords(iocs, pair)

\* C1: however often update is re-run, the index never holds an IOC record of
\* an (advisory, source) pair that the latest parse of that pair did not
\* produce, never holds the same (ioc_type, value) twice for one pair, and
\* replacing one pair's records leaves the records of the other source of the
\* same advisory as they were.
C1_RerunReplacesPerSource ==
    /\ [](C1_NoStaleRecord /\ C1_NoDuplicateRecord)
    /\ [][C1_OtherPairsUntouched]_vars

\* a later run has replaced an advisory's STIX records while the advisory's
\* PDF records were stored
C1_Witness ==
    \E pair \in DOMAIN last_parse :
        /\ pair[2] = "stix"
        /\ last_parse[pair].again
        /\ last_parse[pair].records # <<>>
        /\ call.op = "insert_iocs"
        /\ call.records = last_parse[pair].records
        /\ PairRecords(iocs, pair) = last_parse[pair].records
        /\ PairRecords(iocs, <<pair[1], "pdf">>) # <<>>

\* ------------------------------------------------------- index properties
\* rows of a table satisfying a test, as a count
Count(rows, Test(_)) == Len(SelectSeq(rows, Test))

\* C2: in every reachable index state, every stored IOC record's advisory_id
\* is the advisory_id of a stored advisory (referential integrity).
C2_ReferentialIntegrity ==
    \A i \in DOMAIN iocs :
        \E a \in DOMAIN advisories : advisories[a].advisory_id = iocs[i].advisory_id

\* a rejected insert_iocs call made while records are stored
C2_Witness ==
    /\ call.op = "insert_iocs"
    /\ ret.raised
    /\ iocs # <<>>

\* C3: insert_iocs with a batch holding a record whose advisory_id is not
\* stored raises to the caller and leaves both tables as they were, the
\* records of the batch preceding the offending one included.
C3_RejectedBatchPersistsNothing ==
    [][ (/\ call'.op = "insert_iocs"
         /\ \E k \in DOMAIN call'.records :
               \A a \in DOMAIN advisories :
                   advisories[a].advisory_id # call'.records[k].advisory_id)
        => (/\ ret'.raised
            /\ ret'.value = "sqlite3.IntegrityError"
            /\ iocs' = iocs
            /\ advisories' = advisories) ]_vars

\* a rejected batch whose first record referenced a stored advisory
C3_Witness ==
    /\ call.op = "insert_iocs"
    /\ ret.raised
    /\ Len(call.records) >= 2
    /\ \E a \in DOMAIN advisories :
           advisories[a].advisory_id = call.records[1].advisory_id
    /\ \A a \in DOMAIN advisories :
           advisories[a].advisory_id # call.records[2].advisory_id

\* the stored row of advisory id carries the fields of Advisory adv
C4_RowCarries(row, adv) ==
    /\ row.title = adv.title
    /\ row.url = adv.url
    /\ row.stix_url = adv.stix_url
    /\ row.pdf_url = adv.pdf_url
    /\ IF adv.published = None THEN row.published = None
       ELSE row.published # None /\ FromIsoFormat(row.published) = adv.published

C4_OneRowPerUpsertedId ==
    /\ Len(advisories) = Cardinality(DOMAIN upserted)
    /\ \A id \in DOMAIN upserted :
          /\ Count(advisories, LAMBDA r : r.advisory_id = id) = 1
          /\ \A a \in DOMAIN advisories :
                advisories[a].advisory_id = id
                    => C4_RowCarries(advisories[a], upserted[id])

C4_ReupsertKeepsCountAndIocs ==
    (/\ call'.op = "upsert_advisory"
     /\ call'.adv.advisory_id \in DOMAIN upserted)
    => (Len(advisories') = Len(advisories) /\ iocs' = iocs)

\* C4: upsert_advisory is insert-or-replace keyed by advisory_id: the table
\* holds exactly one row per id ever upserted, carrying the fields of the
\* last upsert for the id; re-upserting a stored id leaves the advisory
\* count unchanged and deletes no IOC record.
C4_UpsertIsInsertOrReplace ==
    []C4_OneRowPerUpsertedId /\ [][C4_ReupsertKeepsCountAndIocs]_vars

\* an advisory that has IOC records was upserted again, with the updated title
C4_Witness ==
    /\ call.op = "upsert_advisory"
    /\ call.adv.title = "#StopRansomware: Royal Ransomware (Updated)"
    /\ \E i \in DOMAIN iocs : iocs[i].advisory_id = call.adv.advisory_id
    /\ Len(advisories) = 2

\* C5: insert_iocs returns the number of records it added: 0 for an empty
\* list, with both tables unchanged; the batch length for a non-empty batch
\* whose advisories are all stored, the iocs table afterwards being the
\* previous rows followed by exactly the records of the batch.
C5_InsertReturnsCountAdded ==
    [][ call'.op = "insert_iocs" =>
          /\ call'.records = <<>> =>
               (ret' = Returned(0) /\ iocs' = iocs /\ advisories' = advisories)
          /\ (/\ call'.records # <<>>
              /\ \A k \in DOMAIN call'.records :
                    \E a \in DOMAIN advisories :
                        advisories[a].advisory_id = call'.records[k].advisory_id)
             => (/\ ret' = Returned(Len(call'.records))
                 /\ iocs' = iocs \o call'.records
                 /\ advisories' = advisories) ]_vars

\* a non-empty batch was added to a table that already held a record
C5_Witness ==
    /\ call.op = "insert_iocs"
    /\ ~ret.raised
    /\ call.records # <<>>
    /\ ret.value = Len(call.records)
    /\ Len(iocs) > Len(call.records)

\* the records clear_iocs(advisory_id, source) is to remove
C6_Targeted(rec, advisory_id, source) ==
    /\ rec.advisory_id = advisory_id
    /\ source # None => rec.source = source

\* C6: clear_iocs(advisory_id, source) removes exactly the records with that
\* advisory_id and source, clear_iocs(advisory_id) exactly those with that
\* advisory_id; every other record and every advisory row is unchanged, so a
\* value stored under the other source stays searchable.
C6_ClearRemovesExactlyTheScope ==
    [][ call'.op = "clear_iocs_for_advisory" =>
          LET id == call'.advisory_id
              src == call'.source
          IN /\ advisories' = advisories
             /\ iocs' = SelectSeq(iocs, LAMBDA r : ~C6_Targeted(r, id, src))
             /\ \A i \in DOMAIN iocs :
                   (~C6_Targeted(iocs[i], id, src) /\ iocs[i].ioc_type = "ipv4-addr")
                   => SearchIp(advisories', iocs', iocs[i].value).found ]_vars

\* the stix records of an advisory were cleared and a pdf record of the same
\* advisory is still found by value
C6_Witness ==
    /\ call.op = "clear_iocs_for_advisory"
    /\ call.source = "stix"
    /\ \E i \in DOMAIN iocs :
          /\ iocs[i].advisory_id = call.advisory_id
          /\ iocs[i].source = "pdf"
          /\ SearchIp(advisories, iocs, iocs[i].value).found

\* the stored records search_value(v) is to match, by the claim
C7_IpRecords(v) ==
    SelectSeq(iocs, LAMBDA r : r.value = v /\ r.ioc_type \in {"ipv4-addr", "ipv6-addr"})

\* C7: search_value(v) returns one match for each stored record whose value
\* is v and whose ioc_type is ipv4-addr or ipv6-addr and none for any other
\* type; found is true exactly when there is a match.  (search_ip changes no
\* table, so the state after the call still holds the records searched.)
C7_SearchMatchesIpRecords ==
    call.op = "search_ip" =>
        LET expected == C7_IpRecords(call.ip)
            matches == ret.value.matches
        IN /\ Len(matches) = Len(expected)
           /\ \A k \in DOMAIN matches :
                 /\ matches[k].advisory_id = expected[k].advisory_id
                 /\ matches[k].source = expected[k].source
           /\ ret.value.found = (matches # <<>>)

\* --------------------------------------------------- discovery properties
\* the ids of the seed catalog
C8_CatalogIds == { ADVISORY_CATALOG[k][1] : k \in DOMAIN ADVISORY_CATALOG }

\* C8: in live-refresh mode an advisory_id present both in the live result
\* and in the seed catalog appears exactly once in the merged result, and
\* with every field of the live advisory.
C8_LiveTakesPrecedence ==
    (disc.pc = "done" /\ disc.refresh) =>
        \A l \in DOMAIN disc.live :
            disc.live[l].advisory_id \in C8_CatalogIds =>
                /\ Count(disc.result,
                         LAMBDA a : a.advisory_id = disc.live[l].advisory_id) = 1
                /\ \A r \in DOMAIN disc.result :
                      disc.result[r].advisory_id = disc.live[l].advisory_id
                          => disc.result[r] = disc.live[l]

\* live discovery found the first catalog id under another title
C8_Witness ==
    /\ disc.pc = "done"
    /\ disc.refresh
    /\ \E l \in DOMAIN disc.live :
          /\ disc.live[l].advisory_id = ADVISORY_CATALOG[1][1]
          /\ disc.live[l].title # ADVISORY_CATALOG[1][2]

\* C9: discover(refresh=true) returns each id of the live result and of the
\* seed catalog exactly once and no other; when live discovery returns
\* nothing, a transport failure on the first page included, it returns the
\* full catalog.
C9_MergeDropsNoAdvisory ==
    (disc.pc = "done" /\ disc.refresh) =>
        /\ IdsOf(disc.result) = IdsOf(disc.live) \cup C8_CatalogIds
        /\ Len(disc.result) = Cardinality(IdsOf(disc.result))
        /\ disc.live = <<>> => disc.result = CatalogAdvisories
        /\ (disc.failed /\ disc.fetched = 1) => disc.result = CatalogAdvisories

\* the live result holds an id the catalog lacks and lacks an id of the catalog
C9_Witness ==
    /\ disc.pc = "done"
    /\ disc.refresh
    /\ IdsOf(disc.live) \ C8_CatalogIds # {}
    /\ C8_CatalogIds \ IdsOf(disc.live) # {}

\* C10: discover(refresh=false) returns one advisory per seed entry, in seed
\* order, with the seed's id and title, the detail URL built from the base
\* URL and the id, no artifact URL, and fetches no listing page.
C10_CatalogOnlyIsTheSeedList ==
    (disc.pc = "done" /\ ~disc.refresh) =>
        /\ Len(disc.result) = Len(ADVISORY_CATALOG)
        /\ \A k \in DOMAIN ADVISORY_CATALOG :
              /\ disc.result[k].advisory_id = ADVISORY_CATALOG[k][1]
              /\ disc.result[k].title = ADVISORY_CATALOG[k][2]
              /\ disc.result[k].url =
                    "https://www.cisa.gov/news-events/cybersecurity-advisories/"
                        \o ADVISORY_CATALOG[k][1]
              /\ disc.result[k].stix_url = None
              /\ disc.result[k].pdf_url = None
        /\ disc.fetched = 0

\* a catalog-only call has returned the seed entries
C10_Witness ==
    /\ disc.pc = "done"
    /\ ~disc.refresh
    /\ Len(disc.result) >= 2

\* ------------------------------------------------ live discovery properties
\* an anchor that counts towards links_found
LiveRelevant(a) ==
    /\ HasAdvisoryPath(a.href)
    /\ AdvisoryIdIn(a.href) # None
    /\ HasMarker(GetTextStrip(a.text))

\* the ids of the relevant anchors of one logged fetch
LiveRelevantIds(k) ==
    { AdvisoryIdIn(listing_log[k].anchors[i].href) :
        i \in { j \in DOMAIN listing_log[k].anchors :
                    LiveRelevant(listing_log[k].anchors[j]) } }

\* the ids known when fetch k starts: the caller's and those of earlier pages
LiveKnownBefore(k) ==
    disc.known_ids \cup UNION { LiveRelevantIds(j) : j \in 1..(k - 1) }

\* fetch k is a page on which pagination stops
LiveStopPage(k) ==
    /\ ~listing_log[k].failed
    /\ \/ LiveRelevantIds(k) = {}
       \/ LiveRelevantIds(k) \subseteq LiveKnownBefore(k)

\* a direct call of discover_advisories_live is under way or has returned
LiveCalled == disc.entry = "discover_advisories_live" /\ disc.pc \in {"live", "done"}

\* C11: live discovery fetches pages 0, 1, 2, ... in order and stops on the
\* first page p with no relevant link, or with relevant links none of which is
\* new: exactly p+1 pages are fetched and no later page is requested; a first
\* page of known ids only gives 1 fetch and an empty result.
C11_StopsOnFirstExhaustedPage ==
    LiveCalled =>
        /\ \A k \in DOMAIN listing_log : listing_log[k].page_num = k - 1
        /\ disc.fetched = Len(listing_log)
        /\ \A k \in DOMAIN listing_log :
              LiveStopPage(k) => (k = Len(listing_log) /\ disc.pc = "done")
        /\ (/\ Len(listing_log) >= 1
            /\ LiveStopPage(1)) => disc.result = <<>>
        /\ (disc.pc = "done" /\ Len(listing_log) < MAX_DISCOVERY_PAGES) =>
              \/ LiveStopPage(Len(listing_log))
              \/ listing_log[Len(listing_log)].failed

\* a page with new relevant links was followed by a page with relevant links
\* that were all known: two fetches, then the return
C11_Witness ==
    /\ LiveCalled
    /\ disc.pc = "done"
    /\ Len(listing_log) = 2
    /\ LiveRelevantIds(2) # {}
    /\ LiveStopPage(2)
    /\ disc.fetched = 2

\* a first page holding only already-known ids: one fetch, nothing returned
C11_WitnessKnownOnly ==
    /\ LiveCalled
    /\ disc.pc = "done"
    /\ Len(listing_log) = 1
    /\ LiveRelevantIds(1) # {}
    /\ LiveRelevantIds(1) \subseteq disc.known_ids
    /\ disc.result = <<>>

\* every logged fetch is a page holding at least one new relevant advisory
C12_EveryPageNew ==
    \A k \in DOMAIN listing_log :
        /\ ~listing_log[k].failed
        /\ ~(LiveRelevantIds(k) \subseteq LiveKnownBefore(k))

C12_AtMostMaxPages ==
    LiveCalled =>
        /\ Len(listing_log) <= MAX_DISCOVERY_PAGES
        /\ disc.fetched <= MAX_DISCOVERY_PAGES
        /\ (disc.pc = "done" /\ C12_EveryPageNew) =>
              /\ disc.fetched = MAX_DISCOVERY_PAGES
              /\ IdsOf(disc.result) =
                    UNION { LiveRelevantIds(k) : k \in DOMAIN listing_log }
                        \ disc.known_ids
        /\ (Len(listing_log) = MAX_DISCOVERY_PAGES) => disc.pc = "done"

\* C12: every live discovery run terminates after fetching at most MAX_PAGES
\* listing pages, whatever they contain; when every page holds a new relevant
\* advisory, exactly MAX_PAGES pages are fetched and their advisories returned.
C12_TerminatesWithinMaxPages ==
    /\ []C12_AtMostMaxPages
    /\ (disc.pc = "live") ~> (disc.pc = "done")

\* MAX_PAGES pages, each with a new relevant advisory, were fetched and the
\* call returned
C12_Witness ==
    /\ LiveCalled
    /\ disc.pc = "done"
    /\ Len(listing_log) = MAX_DISCOVERY_PAGES
    /\ C12_EveryPageNew
    /\ Len(disc.result) >= MAX_DISCOVERY_PAGES

\* a failed fetch is the last fetch of its call, and the call has returned
C13_NoFetchAfterFailure ==
    LiveCalled =>
        \A k \in DOMAIN listing_log :
            listing_log[k].failed => (k = Len(listing_log) /\ disc.pc = "done")

\* the step on which the fetch of a page fails returns what the earlier pages
\* had accumulated
C13_FailureReturnsAccumulated ==
    (/\ disc.entry = "discover_advisories_live"
     /\ Len(listing_log') = Len(listing_log) + 1
     /\ listing_log'[Len(listing_log')].failed)
    => /\ disc'.pc = "done"
       /\ disc'.result = disc.discovered
       /\ disc'.fetched = disc.fetched + 1
       /\ disc'.page_num = disc.page_num

\* C13: a transport failure on listing page n stops pagination at once: no
\* page after n is fetched, the call returns normally, and the result is
\* exactly the advisories accumulated from pages 0..n-1.
C13_FailureStopsAndReturns ==
    /\ []C13_NoFetchAfterFailure
    /\ [][C13_FailureReturnsAccumulated]_vars

\* the fetch of the second page failed after a first page with a new advisory
C13_Witness ==
    /\ LiveCalled
    /\ disc.pc = "done"
    /\ Len(listing_log) = 2
    /\ listing_log[2].failed
    /\ disc.result # <<>>
    /\ IdsOf(disc.result) = LiveRelevantIds(1) \ disc.known_ids

\* the anchors of all logged fetches, in the order they were read
RECURSIVE LiveAnchorsRead(_)
LiveAnchorsRead(k) ==
    IF k = 0 THEN <<>> ELSE LiveAnchorsRead(k - 1) \o listing_log[k].anchors

\* where an id first shows on a relevant anchor in that order
C14_FirstSeen(id) ==
    LET read == LiveAnchorsRead(Len(listing_log))
        at == { i \in DOMAIN read :
                    LiveRelevant(read[i]) /\ AdvisoryIdIn(read[i].href) = id }
    IN CHOOSE i \in at : \A j \in at : i <= j

\* C14: the result of live discovery holds exactly the ids of the relevant
\* anchors of the fetched pages that are not in known_ids: no known id, no id
\* twice, no anchor without the marker, in the order of first discovery.
C14_ResultIsTheNewRelevantIds ==
    (LiveCalled /\ disc.pc = "done") =>
        /\ IdsOf(disc.result) =
              UNION { LiveRelevantIds(k) : k \in DOMAIN listing_log } \ disc.known_ids
        /\ \A i, j \in DOMAIN disc.result :
              i < j => /\ disc.result[i].advisory_id # disc.result[j].advisory_id
                       /\ C14_FirstSeen(disc.result[i].advisory_id)
                            < C14_FirstSeen(disc.result[j].advisory_id)
        /\ \A i \in DOMAIN disc.result :
              LET a == LiveAnchorsRead(Len(listing_log))[
                            C14_FirstSeen(disc.result[i].advisory_id)]
              IN /\ HasMarker(disc.result[i].title)
                 /\ disc.result[i].title = GetTextStrip(a.text)
                 /\ disc.result[i].url = DetailUrl(disc.result[i].advisory_id)

\* a call with a known id returned two new advisories while the pages also
\* held the known id, a repeated id and an anchor without the marker
C14_Witness ==
    /\ LiveCalled
    /\ disc.pc = "done"
    /\ disc.known_ids # {}
    /\ Len(disc.result) = 2
    /\ \E k \in DOMAIN listing_log : LiveRelevantIds(k) \cap disc.known_ids # {}
    /\ LET read == LiveAnchorsRead(Len(listing_log))
       IN /\ \E i \in DOMAIN read : ~LiveRelevant(read[i])
          /\ \E i, j \in DOMAIN read :
                /\ i < j
                /\ LiveRelevant(read[i]) /\ LiveRelevant(read[j])
                /\ AdvisoryIdIn(read[i].href) = AdvisoryIdIn(read[j].href)
                /\ AdvisoryIdIn(read[i].href) \notin disc.known_ids

\* ------------------------------------------------- update failure properties
\* update stands before the parse of a STIX file that is not valid JSON or
\* whose top level is not an object
C15_MalformedInHand ==
    /\ run.pc = "stix_parse"
    /\ ParseStixFile(cache[<<run.adv.advisory_id, "stix">>], run.adv.advisory_id).raised

\* C15: a STIX artifact that is malformed at the top level fails alone: the
\* update run is not aborted and goes on to the remaining advisories.
C15_MalformedArtifactDoesNotAbort ==
    [][C15_MalformedInHand =>
         /\ run'.error = None
         /\ run.idx < Len(run.queue) => run'.pc # "idle"]_vars

\* the pairs that have or had records, or were parsed
C16_Pairs == C1_PairsOf(iocs) \cup C1_PairsOf(rerun.before) \cup DOMAIN last_parse

\* C16: an interrupted run of update leaves the index untorn: every IOC
\* record references a stored advisory, and every (advisory, source) pair holds
\* either the complete batch it held before the run or the complete batch of
\* the run, never a partial batch and never nothing where it held a batch.
C16_InterruptedRunLeavesWholeBatches ==
    (run.pc = "idle" /\ run.error = "KeyboardInterrupt") =>
        /\ \A k \in DOMAIN iocs : iocs[k].advisory_id \in AdvisoryIds(advisories)
        /\ \A pair \in C16_Pairs :
              \/ PairRecords(iocs, pair) = PairRecords(rerun.before, pair)
              \/ /\ pair \in DOMAIN last_parse
                 /\ PairRecords(iocs, pair) = last_parse[pair].records

\* the step on which the fetch of the detail page fails: enrich returns the
\* advisory as discovered, without artifact URLs, and it is upserted
C20_FailedEnrichStep ==
    (run.pc = "enrich" /\ run'.detail_failed) =>
        /\ run'.adv = run.queue[run.idx]
        /\ run'.adv.stix_url = None /\ run'.adv.pdf_url = None
        /\ call' = [op |-> "upsert_advisory", adv |-> run'.adv]
        /\ AdvisoryRow(run'.adv) \in Range(advisories')
        /\ iocs' = iocs
        /\ run'.pc = "stix" /\ run'.error = None

\* the rest of that advisory's pass: nothing is downloaded, cleared or
\* inserted, and the run moves to the next advisory, or ends normally after
\* the last one
C20_RestOfPass ==
    run.detail_failed =>
        /\ run.pc \in {"stix", "pdf"}
        /\ iocs' = iocs /\ cache' = cache /\ advisories' = advisories
        /\ run'.error = None
        /\ \/ run.pc = "stix" /\ run.include_pdfs /\ run'.pc = "pdf"
                /\ run'.idx = run.idx /\ run'.queue = run.queue
           \/ /\ run.pc = "pdf" \/ ~run.include_pdfs
              /\ run.idx < Len(run.queue)
              /\ run'.pc = "enrich" /\ run'.idx = run.idx + 1
              /\ run'.queue = run.queue
           \/ /\ run.pc = "pdf" \/ ~run.include_pdfs
              /\ run.idx = Len(run.queue)
              /\ run'.pc = "idle"

\* C20: a transport failure on an advisory's detail page is a soft failure:
\* enrich returns the advisory with both artifact URLs unset, the advisory is
\* still upserted, no IOC record is added or removed for it, and the update
\* run goes on with the remaining advisories.
C20_DetailFailureIsSoft ==
    [][C20_FailedEnrichStep /\ C20_RestOfPass]_vars

\* the detail page of an advisory with stored IOC records failed: the
\* advisory was upserted without artifact URLs, the STIX part of its pass has
\* gone by, and its records are still stored
C20_Witness ==
    /\ run.detail_failed
    /\ run.pc = "pdf"
    /\ run.adv.advisory_id \in DOMAIN upserted
    /\ upserted[run.adv.advisory_id] = run.adv
    /\ run.adv.stix_url = None /\ run.adv.pdf_url = None
    /\ \E k \in DOMAIN iocs :
          iocs[k].advisory_id = run.adv.advisory_id /\ iocs[k].source = "stix"
    /\ \E k \in DOMAIN iocs :
          iocs[k].advisory_id = run.adv.advisory_id /\ iocs[k].source = "pdf"

\* ------------------------------------------------------- re-run properties
\* what enrich_advisory makes of a catalog advisory in the world of the runs
C17_Enriched(adv) ==
    IF rerun.detail = <<RequestFails>> THEN adv ELSE EnrichAdvisory(adv, rerun.detail)

\* the records one uninterrupted run stores for a catalog advisory
C17_StixBatch(adv) ==
    IF ~Truthy(C17_Enriched(adv).stix_url) \/ rerun.stix = RequestFails THEN {}
    ELSE Range(ParseStixFile(rerun.stix, adv.advisory_id).value)

C17_PdfBatch(adv) ==
    IF \/ ~rerun.include_pdfs
       \/ ~Truthy(C17_Enriched(adv).pdf_url)
       \/ rerun.pdf = RequestFails
    THEN {}
    ELSE Range(ParsePdfFile(rerun.pdf, adv.advisory_id).value)

\* a run of update has gone through all advisories and ended
C17_RunCompleted == rerun.fixed /\ run.pc = "idle" /\ run.error = None

\* C17: ingestion can be re-run to completion: in one world, every complete
\* run of update, whether it follows stopped runs, complete runs or nothing,
\* leaves the advisories and IOC records that one uninterrupted run on the
\* empty index produces.
C17_CompleteRunGivesTheSameIndex ==
    C17_RunCompleted =>
        /\ Range(advisories) =
              { AdvisoryRow(C17_Enriched(a)) : a \in Range(CatalogAdvisories) }
        /\ Len(advisories) = Cardinality(Range(advisories))
        /\ Range(iocs) =
              UNION { C17_StixBatch(a) \cup C17_PdfBatch(a) :
                        a \in Range(CatalogAdvisories) }
        /\ Len(iocs) = Cardinality(Range(iocs))

\* a complete run that followed a stopped run, at least one earlier batch of
\* records being stored when it began, has stored STIX and PDF records
C17_Witness ==
    /\ C17_RunCompleted
    /\ rerun.stopped
    /\ rerun.before # <<>>
    /\ \E k \in DOMAIN iocs : iocs[k].source = "stix"
    /\ \E k \in DOMAIN iocs : iocs[k].source = "pdf"

\* ------------------------------------------------------- defang properties
\* C18: refang is idempotent on every text: refang(refang(s)) = refang(s),
\* nested and adjacent obfuscated separators included.
C18_RefangIsIdempotent ==
    call.op = "refang_ip" => Refang(ret.value) = ret.value

\* ------------------------------------------------------- enrich properties
\* an anchor is a structured-artifact link / a document-artifact link
C19_StixLink(a) ==
    /\ EndsWithJson(AbsoluteUrl(a.href))
    /\ StixInUrl(AbsoluteUrl(a.href)) \/ StixOrJsonInText(a.text)

C19_PdfLink(a) == EndsWithPdf(AbsoluteUrl(a.href))

\* the URL of the last anchor of the page that passes the test, `was` when
\* none does
C19_LastOf(page, Test(_), was) ==
    LET at == { i \in DOMAIN page : Test(page[i]) }
    IN IF at = {} THEN was
       ELSE AbsoluteUrl(page[CHOOSE i \in at : \A j \in at : j <= i].href)

\* C19: enrich sets the advisory's STIX URL to the last anchor in page order
\* that ends in .json and qualifies by URL marker or by text marker, and its
\* PDF URL to the last anchor ending in .pdf, each independently of the other;
\* a field with no qualifying anchor is left as it was.
C19_EnrichSelectsLastOfEachKind ==
    (call.op = "enrich_advisory" /\ call.page # <<RequestFails>>) =>
        /\ ret.value.stix_url =
              C19_LastOf(call.page, C19_StixLink, call.advisory.stix_url)
        /\ ret.value.pdf_url =
              C19_LastOf(call.page, C19_PdfLink, call.advisory.pdf_url)
        /\ ret.value = [call.advisory EXCEPT !.stix_url = ret.value.stix_url,
                                             !.pdf_url = ret.value.pdf_url]

\* an advisory that had both URLs was enriched from a page with a PDF link
\* followed by another PDF link, and no STIX link: the last PDF link is taken
\* and the STIX URL is left as it was
C19_Witness ==
    /\ call.op = "enrich_advisory"
    /\ call.page # <<RequestFails>>
    /\ Len(call.page) = 2
    /\ C19_PdfLink(call.page[1]) /\ C19_PdfLink(call.page[2])
    /\ call.page[1] # call.page[2]
    /\ call.advisory.stix_url # None
    /\ ret.value.stix_url = call.advisory.stix_url
    /\ ret.value.pdf_url = AbsoluteUrl(call.page[2].href)

\* ------------------------------------------------------- parser properties
\* the clauses of the indicator objects of a document, in document order
RECURSIVE C21_IndicatorClauses(_)
C21_IndicatorClauses(objects) ==
    IF objects = <<>> THEN <<>>
    ELSE (IF Head(objects).type = "indicator" THEN Head(objects).pattern ELSE <<>>)
         \o C21_IndicatorClauses(Tail(objects))

\* the (ioc_type, value) a recognized clause stands for: the object-type token
\* mapped by the table, "file" to "file:hashes", any other token unchanged
C21_KeyOf(clause) ==
    LET m == ClauseMatch(clause)[1]
    IN <<IF m[1] = "file" THEN "file:hashes" ELSE m[1], m[2]>>

\* where a key first shows among the clauses
C21_FirstAt(clauses, key) ==
    LET at == { i \in DOMAIN clauses :
                    ClauseMatch(clauses[i]) # <<>> /\ C21_KeyOf(clauses[i]) = key }
    IN CHOOSE i \in at : \A j \in at : i <= j

\* C21: the structured parser returns one record per distinct recognized
\* clause of the indicator objects, pairwise distinct in (ioc_type, value)
\* over the whole document, in first-occurrence order; other objects and
\* unrecognized clauses give nothing and no failure; the type token is mapped
\* by the table, unknown tokens unchanged; every record carries the
\* advisory_id given and the source "stix".
C21_ParserReturnsDistinctClauses ==
    (call.op = "parse_stix_file" /\ call.file.json = "dict") =>
        LET clauses == C21_IndicatorClauses(call.file.objects)
            keys == { C21_KeyOf(clauses[i]) :
                        i \in { j \in DOMAIN clauses : ClauseMatch(clauses[j]) # <<>> } }
            recs == ret.value
        IN /\ ~ret.raised
           /\ { <<recs[k].ioc_type, recs[k].value>> : k \in DOMAIN recs } = keys
           /\ Len(recs) = Cardinality(keys)
           /\ \A i, j \in DOMAIN recs :
                 i < j => C21_FirstAt(clauses, <<recs[i].ioc_type, recs[i].value>>)
                            < C21_FirstAt(clauses, <<recs[j].ioc_type, recs[j].value>>)
           /\ \A k \in DOMAIN recs :
                 recs[k].advisory_id = call.advisory_id /\ recs[k].source = "stix"

\* a document whose two indicators give one hash under two algorithms, around
\* a clause of an unknown type with the same value, was parsed into two records
C21_Witness ==
    /\ call.op = "parse_stix_file"
    /\ call.file.json = "dict"
    /\ Len(call.file.objects) = 2
    /\ call.file.objects[1].pattern = << "[file:hashes.'SHA-256' = 'ab12']",
                                         "[x509-certificate:hashes.'SHA-1' = 'ab12']" >>
    /\ call.file.objects[2].pattern = << "[file:name = 'evil.exe']",
                                         "[file:hashes.MD5 = 'ab12']" >>
    /\ ~ret.raised
    /\ Len(ret.value) = 2
    /\ ret.value[1].ioc_type = "file:hashes"
    /\ ret.value[2].ioc_type = "x509-certificate"

\* --------------------------------------------------- extraction properties
\* the number an octet's digits write
RECURSIVE C22_OctetValue(_)
C22_OctetValue(digits) ==
    IF digits = <<>> THEN 0
    ELSE 10 * C22_OctetValue(SubSeq(digits, 1, Len(digits) - 1))
         + (CHOOSE n \in 0..9 :
                digits[Len(digits)] = <<"0", "1", "2", "3", "4", "5", "6", "7", "8", "9">>[n + 1])

\* a word is an address: a quad with every octet in 0..255
C22_IsAddress(w) ==
    /\ w.octets # <<>>
    /\ \A k \in 1..4 : C22_OctetValue(w.octets[k]) \in 0..255

\* the address a word spells, whatever its dots
C22_AddressOf(w) == Quad(w.octets, <<".">>)

\* where an address first stands among the words
C22_FirstWordOf(words, ip) ==
    LET at == { i \in DOMAIN words : C22_IsAddress(words[i]) /\ C22_AddressOf(words[i]) = ip }
    IN CHOOSE i \in at : \A j \in at : i <= j

\* C22: extract_ips_from_text returns each address of the text exactly once,
\* in the order of first occurrence: no duplicates, and a precedes b in the
\* output exactly when a first occurs before b in the text; a defanged and a
\* plain spelling of an address are the same address.
C22_EachAddressOnceInFirstSeenOrder ==
    call.op = "extract_ips_from_text" =>
        LET words == call.words
            found == { C22_AddressOf(words[i]) :
                         i \in { j \in DOMAIN words : C22_IsAddress(words[j]) } }
        IN /\ { ret[k] : k \in DOMAIN ret } = found
           /\ Len(ret) = Cardinality(found)
           /\ \A i, j \in DOMAIN ret :
                 i < j <=> C22_FirstWordOf(words, ret[i]) < C22_FirstWordOf(words, ret[j])

\* one address plain, another defanged, then the first defanged: two
\* addresses came back, in that order
C22_Witness ==
    /\ call.op = "extract_ips_from_text"
    /\ Len(call.words) = 3
    /\ call.words[1].dot = <<".">>
    /\ call.words[2].dot = <<"[", "d", "o", "t", "]">>
    /\ call.words[3].dot = <<"(", "D", "O", "T", ")">>
    /\ ret = << <<"2", "5", "5", ".", "2", "5", "5", ".", "2", "5", "5", ".", "2", "5", "5">>,
                <<"1", "0", ".", "0", ".", "0", ".", "1">> >>
    /\ C22_AddressOf(call.words[1]) = ret[1]
    /\ C22_AddressOf(call.words[3]) = ret[2]

\* C23: a dotted quad whose four octets are all in 0..255 is returned as it
\* is written (0.0.0.0 and 255.255.255.255 included); for a dotted quad with
\* an octet of 256 or more nothing is returned, no part of it either.
C23_QuadReturnedIffOctetsInRange ==
    (/\ call.op = "extract_ips_from_text"
     /\ Len(call.words) = 1
     /\ call.words[1].octets # <<>>) =>
        IF C22_IsAddress(call.words[1])
        THEN ret = << C22_AddressOf(call.words[1]) >>
        ELSE ret = <<>>

\* 255.255.255.255 was returned whole
C23_Witness ==
    /\ call.op = "extract_ips_from_text"
    /\ call.text = <<"2", "5", "5", ".", "2", "5", "5", ".", "2", "5", "5", ".", "2", "5", "5">>
    /\ ret = <<call.text>>

\* 0.0.0.0 was returned whole
C23_WitnessZero ==
    /\ call.op = "extract_ips_from_text"
    /\ call.text = <<"0", ".", "0", ".", "0", ".", "0">>
    /\ ret = <<call.text>>

\* 255.255.255.256 gave nothing
C23_WitnessOutOfRange ==
    /\ call.op = "extract_ips_from_text"
    /\ call.text = <<"2", "5", "5", ".", "2", "5", "5", ".", "2", "5", "5", ".", "2", "5", "6">>
    /\ ret = <<>>

\* ------------------------------------------------------- group properties
\* list_groups gave one pair per stored advisory, its name the title without
\* the prefix
C24_OnePairPerAdvisory ==
    call.op = "list_groups" =>
        /\ Len(ret.value) = Len(advisories)
        /\ \A i \in DOMAIN advisories :
              \E k \in DOMAIN ret.value :
                 /\ ret.value[k][2] = advisories[i].advisory_id
                 /\ ret.value[k][1] = GroupName(advisories[i].title)
        /\ GroupName("#StopRansomware: Akira") = <<"A", "k", "i", "r", "a">>
        /\ GroupName("#StopRansomware:Akira") = <<"A", "k", "i", "r", "a">>
        /\ GroupName("Conti") = <<"C", "o", "n", "t", "i">>

\* the names of the list do not descend
C24_SortedByName ==
    call.op = "list_groups" =>
        \A i, j \in DOMAIN ret.value :
            i < j => TextLeq(ret.value[i][1], ret.value[j][1])

\* C24: list_groups returns one (name, advisory_id) pair per stored advisory,
\* the name being the title without the recognized prefix, and the list is
\* sorted by that name for every set of stored titles: with the prefix, with
\* the prefix without its trailing space, without the prefix.
C24_GroupsSortedByName == C24_OnePairPerAdvisory /\ C24_SortedByName

\* ------------------------------------------------------ lookup properties
\* C25: a lookup is answered as the search of its refanged form: lookup(q)
\* returns the matches of search(refang(q)), its normalized value is
\* refang(q) and its query field is the raw input the caller gave.
C25_LookupIsSearchOfRefanged ==
    call.op = "lookup_ip" =>
        LET direct == SearchIp(advisories, iocs, Refang(call.raw_query))
        IN /\ ret.value.matches = direct.matches
           /\ ret.value.found = direct.found
           /\ ret.value.normalized_ip = Refang(call.raw_query)
           /\ ret.value.query = call.raw_query

\* the same for the queries that have no space around them
C25_HoldsForUnpaddedQueries ==
    (call.op = "lookup_ip" /\ Strip(call.raw_query) = call.raw_query) =>
        C25_LookupIsSearchOfRefanged

\* every spelling of the stored address is answered as the plain one
C25_SpellingsAnsweredAlike ==
    (call.op = "lookup_ip"
     /\ Refang(Strip(call.raw_query)) = Quad(LookupOctets, <<".">>)) =>
        LET plain == SearchIp(advisories, iocs, Quad(LookupOctets, <<".">>))
        IN /\ ret.value.matches = plain.matches
           /\ ret.value.found = plain.found
           /\ ret.value.found = (\E k \in DOMAIN iocs : TRUE)

\* ------------------------------------------------------- report properties
\* the sum of a dict's counts
RECURSIVE C26_SumOfCounts(_)
C26_SumOfCounts(counts) ==
    IF DOMAIN counts = {} THEN 0
    ELSE LET k == CHOOSE x \in DOMAIN counts : TRUE
         IN counts[k] + C26_SumOfCounts([x \in DOMAIN counts \ {k} |-> counts[x]])

\* what get_stats returned agrees with the index
C26_StatsAgreeWithIndex ==
    call.op = "get_stats" =>
        /\ ret.value.advisories = Cardinality(AdvisoryIds(advisories))
        /\ ret.value.total_iocs = Cardinality(DOMAIN iocs)
        /\ C26_SumOfCounts(ret.value.by_type) = ret.value.total_iocs
        /\ C26_SumOfCounts(ret.value.by_source) = ret.value.total_iocs

\* a get_stats call leaves the index as it was
C26_StatsChangeNothing ==
    call'.op = "get_stats" => (advisories' = advisories /\ iocs' = iocs)

\* C26: stats is a pure aggregation consistent with the index in every
\* reachable state: it changes nothing, advisories is the number of stored
\* advisory ids, total_iocs the number of stored IOC records, and the
\* by_type counts and the by_source counts each sum to total_iocs.
C26_StatsIsPureAggregation ==
    []C26_StatsAgreeWithIndex /\ [][C26_StatsChangeNothing]_vars

\* stats over two advisories and one address stored under both sources
C26_Witness ==
    /\ call.op = "get_stats"
    /\ ret.value.advisories = 2
    /\ ret.value.total_iocs = 2
    /\ ret.value.by_type = [t \in {"ipv4-addr"} |-> 2]
    /\ ret.value.by_source = [src \in {"stix", "pdf"} |-> 1]

\* ------------------------------------------------ update's order of calls
\* the steps of a pass that come after upsert_advisory(adv)
C27_AfterUpsert == {"stix", "stix_clear", "stix_parse", "pdf", "pdf_clear", "pdf_parse"}

\* from the upsert of a pass on, the advisory of the pass is stored as the
\* pass enriched it
C27_AdvisoryStoredFirst ==
    run.pc \in C27_AfterUpsert =>
        \E i \in DOMAIN advisories : advisories[i] = AdvisoryRow(run.adv)

\* a pass begins with the upsert of its advisory, and every clear_iocs and
\* insert_iocs call of update (a step that sets call) is for the advisory of
\* a pass that has made its upsert, and the insert does not raise
C27_UpsertPrecedesIocCalls ==
    /\ (run.pc = "enrich" /\ run'.pc \in C27_AfterUpsert) =>
          (call' = [op |-> "upsert_advisory", adv |-> run'.adv]
           /\ run'.adv.advisory_id = run.queue[run.idx].advisory_id)
    /\ (call' # call /\ call'.op = "clear_iocs_for_advisory") =>
          (run.pc \in C27_AfterUpsert /\ call'.advisory_id = run.adv.advisory_id)
    /\ (call' # call /\ call'.op = "insert_iocs") =>
          (/\ run.pc \in C27_AfterUpsert
           /\ \A k \in DOMAIN call'.records :
                 call'.records[k].advisory_id = run.adv.advisory_id
           /\ ~ret'.raised)

\* C27: in every run of update the upsert_advisory call of an advisory
\* precedes every clear_iocs and insert_iocs call for it, so no run raises a
\* referential violation, whatever advisories and artifacts it processes,
\* advisories that were not in the index before the run included.
C27_NoReferentialViolationInUpdate ==
    /\ [](C27_AdvisoryStoredFirst /\ run.error # "sqlite3.IntegrityError")
    /\ [][C27_UpsertPrecedesIocCalls]_vars

\* records were inserted for an advisory that the index did not hold when
\* its pass began
C27_Witness ==
    /\ run.is_new
    /\ call.op = "insert_iocs"
    /\ call.records # <<>>
    /\ ret = Returned(Len(call.records))
    /\ \A k \in DOMAIN call.records : call.records[k].advisory_id = run.adv.advisory_id

\* ------------------------------------------------------ request properties
\* the artifact of the pass for a source is in the local cache
C28_Cached(source) == <<run.adv.advisory_id, source>> \in DOMAIN cache

\* the step fetches: a listing page, a detail page, or an artifact that has
\* a URL and is not in the cache
C28_FetchStep ==
    \/ disc.pc = "live" /\ disc' # disc
    \/ run.pc = "enrich" /\ run'.pc = "stix"
    \/ run.pc = "stix" /\ run' # run /\ Truthy(run.adv.stix_url) /\ ~C28_Cached("stix")
    \/ run.pc = "pdf" /\ run' # run /\ Truthy(run.adv.pdf_url) /\ ~C28_Cached("pdf")

\* the step asks for an artifact that is in the cache
C28_CachedStep ==
    \/ run.pc = "stix" /\ run' # run /\ Truthy(run.adv.stix_url) /\ C28_Cached("stix")
    \/ run.pc = "pdf" /\ run' # run /\ Truthy(run.adv.pdf_url) /\ C28_Cached("pdf")

\* the delays and the requests in what a fetch did
C28_Delays == Cardinality({ k \in DOMAIN wire : wire[k] = "sleep" })

C28_Requests == Cardinality({ k \in DOMAIN wire : wire[k] = "get" })

\* each request has one delay, right before it
C28_DelayBeforeEachRequest ==
    /\ C28_Delays = C28_Requests
    /\ \A k \in DOMAIN wire :
          wire[k] = "get" => (k > 1 /\ wire[k - 1] = "sleep")

\* a fetch makes one request after one delay; an artifact in the cache makes
\* neither, and is returned as it is
C28_OneDelayPerFetch ==
    /\ C28_FetchStep => wire' = <<"sleep", "get">>
    /\ C28_CachedStep => (wire' = <<>> /\ cache' = cache /\ run'.pc \in {"stix_clear", "pdf_clear"})

\* C28: every outbound fetch (listing page, detail page, artifact download)
\* is preceded by exactly one inter-request delay: as many delays as
\* requests, no request without its delay; an artifact already in the local
\* cache causes neither a delay nor a request.
C28_OneDelayPerRequest ==
    []C28_DelayBeforeEachRequest /\ [][C28_OneDelayPerFetch]_vars

\* a live listing page was fetched with its delay
C28_Witness ==
    /\ disc.pc = "live"
    /\ disc.fetched = 1
    /\ wire = <<"sleep", "get">>

\* a second run found the STIX file in the cache: nothing went over the
\* network and the file is about to replace the records
C28_WitnessCached ==
    /\ run.pc = "stix_clear"
    /\ C28_Cached("stix")
    /\ <<run.adv.advisory_id, "stix">> \in DOMAIN last_parse
    /\ wire = <<>>

\* -------------------------------------------- what a run leaves untouched
\* the stored records of an (advisory, source) pair
C29_Stored(rows, id, source) ==
    { rows[k] : k \in { j \in DOMAIN rows :
                          rows[j].advisory_id = id /\ rows[j].source = source } }

C29_Ids == { iocs[k].advisory_id : k \in DOMAIN iocs }

\* the URL the advisory of the pass has for a source
C29_Url(source) == IF source = "stix" THEN run.adv.stix_url ELSE run.adv.pdf_url

\* a step changes the records of a pair only as the clear or the insert of
\* the pass of that advisory for that source
C29_ChangeOnlyInOwnPass ==
    \A id \in C29_Ids \cup { iocs'[k].advisory_id : k \in DOMAIN iocs' }, source \in Sources :
        C29_Stored(iocs', id, source) # C29_Stored(iocs, id, source) =>
            /\ id = run.adv.advisory_id
            /\ run.pc \in (IF source = "stix" THEN {"stix_clear", "stix_parse"}
                           ELSE {"pdf_clear", "pdf_parse"})

\* the clear and the insert for a source are reached only from the download
\* of this pass, when it returned the artifact: the advisory has a URL for
\* the source and the file is in hand; a download that gives no artifact
\* moves on without them; the PDF download is reached only with include_pdfs
C29_ReachedByObtaining ==
    /\ \A source \in Sources :
          LET clear == IF source = "stix" THEN "stix_clear" ELSE "pdf_clear"
              pair == <<run.adv.advisory_id, source>>
          IN /\ (run'.pc = clear /\ run.pc # clear) =>
                   (/\ run.pc = source
                    /\ run'.adv = run.adv
                    /\ Truthy(C29_Url(source))
                    /\ pair \in DOMAIN cache')
             /\ (run.pc = source /\ run' # run
                 /\ (~Truthy(C29_Url(source)) \/ pair \notin DOMAIN cache')) =>
                   (run'.pc # clear /\ iocs' = iocs)
    /\ (run'.pc = "pdf" /\ run.pc # "pdf") => run.include_pdfs

\* while a pass holds the position of a clear or an insert, the artifact is
\* in hand; the PDF positions are held only with include_pdfs
C29_ArtifactInHand ==
    /\ run.pc \in {"stix_clear", "stix_parse"} =>
          <<run.adv.advisory_id, "stix">> \in DOMAIN cache
    /\ run.pc \in {"pdf", "pdf_clear", "pdf_parse"} => run.include_pdfs
    /\ run.pc \in {"pdf_clear", "pdf_parse"} =>
          <<run.adv.advisory_id, "pdf">> \in DOMAIN cache

\* C29: a run of update changes the IOC records of an (advisory, source)
\* pair only when it obtained that source's artifact in this run: with no
\* artifact URL for the source, or a failed download, the pair's records stay
\* as they were, and without include_pdfs no pdf record of any advisory is
\* added or removed.
C29_PairChangesOnlyWithArtifact ==
    /\ []C29_ArtifactInHand
    /\ [][C29_ChangeOnlyInOwnPass /\ C29_ReachedByObtaining]_vars

\* a run without include_pdfs whose STIX download failed has moved on to its
\* second advisory with the STIX and PDF records of the first, stored by an
\* earlier run, still there
C29_Witness ==
    /\ run.pc = "enrich"
    /\ run.idx = 2
    /\ ~run.include_pdfs
    /\ <<run.queue[1].advisory_id, "stix">> \notin DOMAIN cache
    /\ C29_Stored(iocs, run.queue[1].advisory_id, "pdf") # {}
    /\ upserted[run.queue[1].advisory_id].stix_url # None

\* ------------------------------------------------- advisories are kept
\* no step removes an advisory id from the table
C30_NoStepRemovesAnAdvisory == AdvisoryIds(advisories) \subseteq AdvisoryIds(advisories')

\* every id ever passed to upsert_advisory is stored, in one row
C30_UpsertedStaysStored ==
    /\ AdvisoryIds(advisories) = DOMAIN upserted
    /\ Len(advisories) = Cardinality(AdvisoryIds(advisories))

\* C30: no index operation removes an advisory: over any sequence of
\* upsert_advisory, insert_iocs, clear_iocs, search, stats and list_groups
\* calls and any number of update runs, the set of stored advisory ids only
\* grows; an advisory_id once stored stays stored with the same id.
C30_AdvisoryIdsOnlyGrow ==
    []C30_UpsertedStaysStored /\ [][C30_NoStepRemovesAnAdvisory]_vars

\* after runs of update and calls of the index, every record of a catalog
\* advisory was cleared, and the catalog's advisories and the caller's are
\* all stored
C30_Witness ==
    /\ call.op = "clear_iocs_for_advisory"
    /\ Len(advisories) = CatalogLen + 1
    /\ \A k \in DOMAIN iocs : iocs[k].advisory_id # call.advisory_id
    /\ \E k \in DOMAIN rerun.before : rerun.before[k].advisory_id = call.advisory_id
    /\ call.advisory_id \in AdvisoryIds(advisories)

\* ------------------------------------------- repeated ids in live discovery
\* the relevant anchors of the fetched pages that carry an id, by position in
\* the order read
C31_AnchorsOf(id) ==
    LET read == LiveAnchorsRead(Len(listing_log))
    IN { i \in DOMAIN read : LiveRelevant(read[i]) /\ AdvisoryIdIn(read[i].href) = id }

\* fetch k is a page all of whose relevant anchors repeat ids of relevant
\* anchors of earlier pages of this call
C31_OnlyRepeats(k) ==
    /\ ~listing_log[k].failed
    /\ LiveRelevantIds(k) # {}
    /\ LiveRelevantIds(k) \subseteq UNION { LiveRelevantIds(j) : j \in 1..(k - 1) }

\* C31: when one advisory_id stands on several relevant anchors of a live
\* discovery run, on one page or on several, with different titles, the
\* returned advisory has the title of the first anchor seen and the id is
\* returned once; the later anchors are links found but not new, so a page
\* that only repeats ids of earlier pages stops pagination.
C31_FirstTitleKeptAndRepeatsStop ==
    LiveCalled =>
        /\ \A k \in DOMAIN listing_log :
              C31_OnlyRepeats(k) => (k = Len(listing_log) /\ disc.pc = "done")
        /\ disc.pc = "done" =>
              \A i \in DOMAIN disc.result :
                 LET id == disc.result[i].advisory_id
                     read == LiveAnchorsRead(Len(listing_log))
                     first == CHOOSE a \in C31_AnchorsOf(id) :
                                 \A b \in C31_AnchorsOf(id) : a <= b
                 IN /\ C31_AnchorsOf(id) # {}
                    /\ disc.result[i].title = GetTextStrip(read[first].text)
                    /\ \A j \in DOMAIN disc.result :
                          disc.result[j].advisory_id = id => j = i

\* a page held a new id twice under two titles and the next page held it
\* again under the second title only: the call returned after that page with
\* one advisory under the first title
C31_Witness ==
    /\ LiveCalled
    /\ disc.pc = "done"
    /\ disc.known_ids = {}
    /\ Len(listing_log) = 2
    /\ listing_log[1].anchors =
          << [href |-> "/news-events/cybersecurity-advisories/aa25-999a",
              text |-> " #StopRansomware: BrandNew "],
             [href |-> "https://www.cisa.gov/news-events/cybersecurity-advisories/aa25-999a",
              text |-> "#STOPRANSOMWARE: BrandNew (revised)"] >>
    /\ C31_OnlyRepeats(2)
    /\ listing_log[2].anchors[1].text = "#STOPRANSOMWARE: BrandNew (revised)"
    /\ Len(disc.result) = 1
    /\ disc.result[1].title = "#StopRansomware: BrandNew"

\* --------------------------------------- stored artifact URLs after a run
\* the stored rows of an advisory
C32_RowsOf(rows, id) == { rows[i] : i \in { j \in DOMAIN rows : rows[j].advisory_id = id } }

\* the records stored for an advisory from one source, in stored order
C32_RecordsOf(rows, id, source) ==
    SelectSeq(rows, LAMBDA r : r.advisory_id = id /\ r.source = source)

\* the step of a pass that enriches and upserts its advisory
C32_EnrichStep == run.pc = "enrich" /\ run'.pc = "stix"

\* the stored row of the advisory of the pass has the two URLs the
\* enrichment of this pass gave, unset ones included
C32_StoredUrlsAreThisRuns ==
    run.pc \in C27_AfterUpsert =>
        /\ \E page \in DetailPages \cup {<<RequestFails>>} :
              /\ run.detail_failed <=> page = <<RequestFails>>
              /\ run.adv = Enriched(run.queue[run.idx], page)
        /\ run.detail_failed => (run.adv.stix_url = None /\ run.adv.pdf_url = None)
        /\ \A row \in C32_RowsOf(advisories, run.adv.advisory_id) :
              /\ row.stix_url = run.adv.stix_url
              /\ row.pdf_url = run.adv.pdf_url

\* C32: the artifact URLs stored for an advisory update has processed are
\* those the enrichment of that run found and nothing else: the upsert of
\* the pass writes both URLs over the stored ones, unset when the detail
\* fetch failed or the page had no such link, no other step of update writes
\* the advisories, and the records stored earlier for the advisory from a
\* source whose URL is unset stay as they are through the pass.
C32_UrlsOverwrittenRecordsStay ==
    [][ /\ C32_StoredUrlsAreThisRuns'
        /\ advisories' # advisories => C32_EnrichStep
        /\ C32_EnrichStep =>
              /\ iocs' = iocs
              /\ \A row \in C32_RowsOf(advisories', run'.adv.advisory_id) :
                    row = AdvisoryRow(run'.adv)
        /\ run'.pc \in C27_AfterUpsert =>
              \A source \in Sources :
                 (IF source = "stix" THEN run'.adv.stix_url ELSE run'.adv.pdf_url) = None
                    => /\ C32_RecordsOf(iocs', run'.adv.advisory_id, source)
                            = C32_RecordsOf(iocs, run'.adv.advisory_id, source)
                       /\ run'.pc \notin {"stix_clear", "stix_parse"} \/ source # "stix"
                       /\ run'.pc \notin {"pdf_clear", "pdf_parse"} \/ source # "pdf"
      ]_vars

\* a later run failed to fetch the detail page of an advisory stored earlier
\* with records from its STIX file: the row has both URLs unset and the
\* records are still stored
C32_Witness ==
    /\ run.pc = "stix"
    /\ run.detail_failed
    /\ ~run.is_new
    /\ \E i \in DOMAIN advisories :
          /\ advisories[i].advisory_id = run.adv.advisory_id
          /\ advisories[i].stix_url = None
          /\ advisories[i].pdf_url = None
    /\ C32_RecordsOf(iocs, run.adv.advisory_id, "stix") # <<>>

\* the same after a detail page that arrived without an artifact link
C32_WitnessNoLink ==
    /\ run.pc = "stix"
    /\ ~run.detail_failed
    /\ ~run.is_new
    /\ \E i \in DOMAIN advisories :
          /\ advisories[i].advisory_id = run.adv.advisory_id
          /\ advisories[i].stix_url = None
          /\ advisories[i].pdf_url = None
    /\ C32_RecordsOf(iocs, run.adv.advisory_id, "stix") # <<>>
    /\ C32_RecordsOf(iocs, run.adv.advisory_id, "pdf") # <<>>

====
